---- MODULE Spec2Model ----
(***************************************************************************)
(* A model of the coordination layer of ddb-middleware: the 2PC            *)
(* coordinator and participant, the coordinator role's write path, the     *)
(* heartbeat failure detector, the health checker and the Bully election,  *)
(* and of the parts a node runs on its own: the lock manager with the      *)
(* transaction manager that owns it, query routing with the read path's    *)
(* load balancer, and the framing and checksum tests of the transport.     *)
(*                                                                         *)
(* Granularity: one action per handler or per blocking network operation   *)
(* of a thread.  A request/response send (wait_for_response = True) is one *)
(* action per outcome the transport can produce: the peer handled the      *)
(* message and the response arrived, the message never reached the peer,   *)
(* the peer refused the frame, or the sender timed out while the message   *)
(* is still handled later.                                                 *)
(***************************************************************************)
EXTENDS Integers, Sequences, FiniteSets, TLC

\* The static cluster of the specification's scenarios, in all_nodes order.
Nodes == {1, 2, 3}

\* Python's None for a node id.
NoNode == 0

\* Number of write rounds a run may start.
MaxTxn == 1

\* Number of crashes, restarts and false suspicions a run may contain.
MaxFaults == 2

\* Number of election threads that may be waiting to start on one node.
MaxPending == 1

\* Number of 2PC messages handed directly to the participant handlers.
MaxMsgs == 4

\* Lock entries a resource's list holds when an acquire_lock call starts.
MaxLocks == 2

\* Number of query requests the nodes handle in a run.
MaxQueries == 3

\* Number of frames the sockets read in a run.
MaxFrames == 2

\* Number of failure callbacks a checker thread may make for one peer.
MaxCalls == 2

Txns == 1..MaxTxn

\* The write statement of a round, and the empty statement.
WriteQuery == "INSERT"
EmptyQuery == ""
Queries == {WriteQuery, EmptyQuery}

\* A key that is not in a dict.
Absent == "<absent>"

Min(S) == CHOOSE x \in S : \A y \in S : x <= y
Max(S) == CHOOSE x \in S : \A y \in S : x >= y

VARIABLES
    \* ---- processes and the failure detector
    up,                     \* up[n]: the process of node n runs
    node_status,            \* HeartbeatMonitor.node_status of n, per peer
    stale,                  \* stale[n][m]: now - last_heartbeat[m] > timeout at n
    faults,                 \* crashes, restarts and false suspicions so far
    \* ---- health checker, election, coordinator role
    hc_coordinator_id,      \* HealthChecker.coordinator_id
    coordinator_id,         \* BullyElection.coordinator_id
    election_in_progress,   \* BullyElection.election_in_progress
    is_active,              \* Coordinator.is_active
    el,                     \* the thread of n that runs start_election
    pending,                \* election threads started by handle_election_message
    ann,                    \* Coordinator_Announcements in flight, <<from, to>>
    \* ---- 2PC
    co,                     \* the worker thread running _handle_write_query
    nextTxn,                \* the next fresh transaction id
    rounds,                 \* per transaction: what its 2PC round did
    net,                    \* 2PC messages still to be handled by a participant
    prepared_transactions,  \* TwoPhaseCommitParticipant.prepared_transactions
    active_transactions,    \* TransactionManager.active_transactions (states)
    execCount,              \* QueryExecutor.execute calls, per node and txn
    cpCount,                \* commit_prepared_query calls, per node and txn
    apCount,                \* abort_prepared_query calls, per node and txn
    last,                   \* the last message DirectMessage dispatched, and its reply
    delivered,              \* messages handed to the 2PC handlers by DirectMessage
    \* ---- lock manager and the transaction manager that owns it
    locks,                  \* LockManager.locks: resource -> list of Lock
    transaction_locks,      \* LockManager.transaction_locks: txn -> resources
    tm_active,              \* active_transactions of that TransactionManager
    acq,                    \* the thread inside LockManager.acquire_lock, if any
    terminal,               \* the last commit or abort that returned True
    call,                   \* the last call observed at its return, and its result
    keys,                   \* the keys LockManager.locks and transaction_locks hold
    \* ---- query routing and the read path's load balancer
    current_index,          \* LoadBalancer.current_index of each node
    qmsg,                   \* the Query message a node sent and waits on, if any
    qlog,                   \* the query requests handled so far, in order
    \* ---- transport
    rx,                     \* the last frame a socket read, and what became of it
    \* ---- the threads of a node inside BullyElection.start_election
    threads,                \* threads[n][th]: where thread th of n is in start_election
    \* ---- the checker thread of a node inside HeartbeatMonitor._check_heartbeats
    checker,                \* checker[n]: its pass over last_heartbeat, and the callbacks made
    \* ---- one LoadBalancer and the threads that call its public operations
    balancer                \* its lock (the holder) and where each caller is

varsNode == <<up, node_status, stale, faults>>
varsElec == <<hc_coordinator_id, coordinator_id, election_in_progress, is_active,
              el, pending, ann>>
varsCo   == <<co, nextTxn, rounds, net>>
varsPart == <<prepared_transactions, active_transactions, execCount, cpCount,
              apCount>>
varsLock == <<locks, transaction_locks, tm_active, acq, terminal, call, keys>>
varsQuery == <<current_index, qmsg, qlog>>
varsWire == <<rx>>
varsThreads == <<threads, checker, balancer>>
varsLocal == <<varsLock, varsQuery, varsWire, varsThreads>>
vars == <<varsNode, varsElec, varsCo, varsPart, last, delivered, varsLocal>>

Peers(n) == Nodes \ {n}

(***************************************************************************)
(* Transaction registry (the part the 2PC participant uses).               *)
(***************************************************************************)

\* begin_transaction without its duplicate test: the record is made anew.
begin_transaction_anew(reg, t) == [reg EXCEPT ![t] = "ACTIVE"]

\* TransactionManager.begin_transaction: a duplicate id keeps the record.
begin_transaction(reg, t) ==
    IF reg[t] # Absent THEN reg ELSE [reg EXCEPT ![t] = "ACTIVE"]

\* TransactionManager.abort_transaction: unknown id is a no-op; otherwise
\* ABORTING, ABORTED, release_all_locks, removal from the registry.
abort_transaction(reg, t) ==
    IF reg[t] = Absent THEN reg ELSE [reg EXCEPT ![t] = Absent]

\* commit_transaction raising for every id.
commit_raises_always(reg, t) == TRUE

\* TransactionManager.commit_transaction raises ValueError (_get_transaction)
\* when the id is not in the registry.
commit_raises(reg, t) == reg[t] = Absent

\* TransactionManager.commit_transaction on a known id: COMMITTING,
\* COMMITTED, release_all_locks, removal from the registry.
commit_transaction(reg, t) == [reg EXCEPT ![t] = Absent]

\* TransactionManager.prepare_transaction on a known id: PREPARING, PREPARED.
prepare_transaction(reg, t) == [reg EXCEPT ![t] = "PREPARED"]

\* The values the registry holds for t during a call, from the one it had
\* when the call started; an unknown id makes prepare and commit raise and
\* abort return False at once.
begin_path(reg, t) == IF reg[t] # Absent THEN <<reg[t]>> ELSE <<Absent, "ACTIVE">>
prepare_path(reg, t) ==
    IF reg[t] = Absent THEN <<Absent>> ELSE <<reg[t], "PREPARING", "PREPARED">>
commit_path(reg, t) ==
    IF reg[t] = Absent THEN <<Absent>> ELSE <<reg[t], "COMMITTING", "COMMITTED", Absent>>
abort_path(reg, t) ==
    IF reg[t] = Absent THEN <<Absent>> ELSE <<reg[t], "ABORTING", "ABORTED", Absent>>

(***************************************************************************)
(* 2PC participant handlers.  Each is the whole handler; can_commit is the *)
(* answer of the QueryExecutor collaborator (False also stands for an      *)
(* exception inside the try block, which takes the same path).             *)
(***************************************************************************)

VoteReply(can_commit) == IF can_commit THEN "VOTE_YES" ELSE "VOTE_NO"

HandlePrepare(p, t, q, can_commit) ==
    LET reg1 == begin_transaction(active_transactions[p], t) IN
    /\ prepared_transactions' =
          IF can_commit
          THEN [prepared_transactions EXCEPT ![p][t] = q]
          ELSE prepared_transactions
    /\ active_transactions' =
          [active_transactions EXCEPT
              ![p] = IF can_commit THEN reg1 ELSE abort_transaction(reg1, t)]
    /\ UNCHANGED <<execCount, cpCount, apCount>>

\* handle_commit without its "not in prepared_transactions" check.
IsPreparedUnchecked(p, t) == TRUE

\* The transaction has a prepared query: handle_commit goes past its check.
IsPrepared(p, t) == prepared_transactions[p][t] # Absent

\* The reply handle_commit produces in the current state.
CommitReply(p, t) ==
    IF IsPrepared(p, t) /\ ~commit_raises(active_transactions[p], t)
    THEN "ACK" ELSE "ERROR"

HandleCommit(p, t) ==
    /\ IF ~IsPrepared(p, t)
       THEN UNCHANGED <<prepared_transactions, active_transactions,
                        execCount, cpCount>>
       ELSE /\ execCount' = [execCount EXCEPT ![p][t] = @ + 1]
            /\ cpCount' = [cpCount EXCEPT ![p][t] = @ + 1]
            /\ IF commit_raises(active_transactions[p], t)
               THEN UNCHANGED <<prepared_transactions, active_transactions>>
               ELSE /\ active_transactions' =
                          [active_transactions EXCEPT
                              ![p] = commit_transaction(@, t)]
                    /\ prepared_transactions' =
                          [prepared_transactions EXCEPT ![p][t] = Absent]
    /\ UNCHANGED apCount

\* `if query:` in handle_abort taken as a test for the empty string only.
TruthyUnlessEmpty(q) == q # EmptyQuery

\* `if query:` in handle_abort: None and the empty string are both falsy.
Truthy(q) == q # Absent /\ q # EmptyQuery

HandleAbort(p, t) ==
    LET q == prepared_transactions[p][t] IN
    /\ IF Truthy(q)
       THEN /\ apCount' = [apCount EXCEPT ![p][t] = @ + 1]
            /\ prepared_transactions' =
                  [prepared_transactions EXCEPT ![p][t] = Absent]
       ELSE UNCHANGED <<apCount, prepared_transactions>>
    /\ active_transactions' =
          [active_transactions EXCEPT ![p] = abort_transaction(@, t)]
    /\ UNCHANGED <<execCount, cpCount>>

(***************************************************************************)
(* The coordinator's write path: Coordinator.handle_query,                 *)
(* _handle_write_query and TwoPhaseCommitCoordinator.execute_2pc.          *)
(***************************************************************************)

IdleCo == [pc |-> "idle", node |-> NoNode, txn |-> 0, todo |-> {},
           votes_no |-> {}, failed |-> {}]

NoRound == [coord |-> NoNode, parts |-> {}, answers |-> [n \in Nodes |-> "none"],
            decision |-> "none", commitSent |-> {}, abortSent |-> {},
            result |-> "none", participants |-> 0]

\* HeartbeatMonitor.get_alive_nodes: the peers whose status flag is set.
get_alive_nodes(n) == {m \in Peers(n) : node_status[n][m]}

\* participant_nodes of _handle_write_query: the peers believed alive, and self.
participant_nodes(c) == {n \in Nodes : n \in get_alive_nodes(c) \/ n = c}

\* _phase1_prepare tolerating one missing or negative vote.
all_yes_but_one(votes_no) == Cardinality(votes_no) <= 1

\* _phase1_prepare: all_yes = len(votes_no) == 0.
all_yes(votes_no) == votes_no = {}

\* _phase2_commit: success = len(failed_nodes) == 0.
commit_success(failed_nodes) == failed_nodes = {}

\* _handle_write_query executing locally whatever execute_2pc reports.
executes_locally_always(round_success) == TRUE

\* _handle_write_query executes locally iff execute_2pc reports success.
executes_locally(round_success) == round_success

\* The peer the broadcast loop contacts next.
NextPeer == Min(co.todo)

\* handle_query on the active coordinator with a write statement: a fresh
\* transaction id, the participants, and the first PREPARE is about to go out.
StartRound(c) ==
    /\ co.pc = "idle"
    /\ up[c]
    /\ is_active[c]
    /\ nextTxn <= MaxTxn
    /\ co' = [IdleCo EXCEPT !.pc = "prepare", !.node = c, !.txn = nextTxn,
                            !.todo = participant_nodes(c) \ {c}]
    /\ rounds' = [rounds EXCEPT ![nextTxn] =
                    [NoRound EXCEPT !.coord = c, !.parts = participant_nodes(c)]]
    /\ nextTxn' = nextTxn + 1
    /\ UNCHANGED <<net, varsNode, varsElec, varsPart, last, delivered>>

StartWrite(c) == StartRound(c) /\ UNCHANGED varsLocal

\* PREPARE reached the peer, its handler ran and the vote came back.
PrepareAnswered(can_commit) ==
    /\ co.pc = "prepare" /\ co.todo # {}
    /\ up[NextPeer]
    /\ HandlePrepare(NextPeer, co.txn, WriteQuery, can_commit)
    /\ co' = [co EXCEPT !.todo = @ \ {NextPeer},
                        !.votes_no = IF VoteReply(can_commit) = "VOTE_YES"
                                     THEN @ ELSE @ \cup {NextPeer}]
    /\ rounds' = [rounds EXCEPT ![co.txn].answers[NextPeer] = VoteReply(can_commit)]
    /\ UNCHANGED <<nextTxn, net, varsNode, varsElec, last, delivered, varsLocal>>

\* PREPARE got no vote and the handler did not run: the send raised
\* (SEND_FAILED), the peer closed without a response (NO_RESPONSE), or the
\* server answered with another message type without dispatching (INVALID).
PrepareUnanswered(kind) ==
    /\ co.pc = "prepare" /\ co.todo # {}
    /\ co' = [co EXCEPT !.todo = @ \ {NextPeer}, !.votes_no = @ \cup {NextPeer}]
    /\ kind \in {"SEND_FAILED", "NO_RESPONSE", "INVALID"}
    /\ rounds' = [rounds EXCEPT ![co.txn].answers[NextPeer] = "NO_VOTE"]
    /\ UNCHANGED <<nextTxn, net, varsNode, varsElec, varsPart, last, delivered, varsLocal>>

\* The coordinator's read timed out; the peer's worker still handles PREPARE.
PrepareTimedOut ==
    /\ co.pc = "prepare" /\ co.todo # {}
    /\ up[NextPeer]
    /\ net' = net \cup {[type |-> "PREPARE", to |-> NextPeer, txn |-> co.txn]}
    /\ co' = [co EXCEPT !.todo = @ \ {NextPeer}, !.votes_no = @ \cup {NextPeer}]
    /\ rounds' = [rounds EXCEPT ![co.txn].answers[NextPeer] = "NO_VOTE"]
    /\ UNCHANGED <<nextTxn, varsNode, varsElec, varsPart, last, delivered, varsLocal>>

\* End of _phase1_prepare: execute_2pc goes on to _phase2_commit or _phase2_abort.
Phase1Done ==
    /\ co.pc = "prepare" /\ co.todo = {}
    /\ co' = [co EXCEPT !.pc = IF all_yes(co.votes_no) THEN "commit" ELSE "abort",
                        !.todo = rounds[co.txn].parts \ {co.node}]
    /\ rounds' = [rounds EXCEPT ![co.txn].decision =
                     IF all_yes(co.votes_no) THEN "commit" ELSE "abort"]
    /\ UNCHANGED <<nextTxn, net, varsNode, varsElec, varsPart, last, delivered, varsLocal>>

\* COMMIT reached the peer, its handler ran and its reply (ACK or ERROR) came back.
CommitAnswered ==
    /\ co.pc = "commit" /\ co.todo # {}
    /\ up[NextPeer]
    /\ HandleCommit(NextPeer, co.txn)
    /\ co' = [co EXCEPT !.todo = @ \ {NextPeer},
                        !.failed = IF CommitReply(NextPeer, co.txn) = "ACK"
                                   THEN @ ELSE @ \cup {NextPeer}]
    /\ rounds' = [rounds EXCEPT ![co.txn].commitSent = @ \cup {NextPeer}]
    /\ UNCHANGED <<nextTxn, net, varsNode, varsElec, last, delivered, varsLocal>>

\* COMMIT was not handled: the send raised or the server refused the frame.
CommitUnanswered ==
    /\ co.pc = "commit" /\ co.todo # {}
    /\ co' = [co EXCEPT !.todo = @ \ {NextPeer}, !.failed = @ \cup {NextPeer}]
    /\ rounds' = [rounds EXCEPT ![co.txn].commitSent = @ \cup {NextPeer}]
    /\ UNCHANGED <<nextTxn, net, varsNode, varsElec, varsPart, last, delivered, varsLocal>>

\* The coordinator's read timed out; the peer's worker still handles COMMIT.
CommitTimedOut ==
    /\ co.pc = "commit" /\ co.todo # {}
    /\ up[NextPeer]
    /\ net' = net \cup {[type |-> "COMMIT", to |-> NextPeer, txn |-> co.txn]}
    /\ co' = [co EXCEPT !.todo = @ \ {NextPeer}, !.failed = @ \cup {NextPeer}]
    /\ rounds' = [rounds EXCEPT ![co.txn].commitSent = @ \cup {NextPeer}]
    /\ UNCHANGED <<nextTxn, varsNode, varsElec, varsPart, last, delivered, varsLocal>>

\* End of _phase2_commit and of execute_2pc; _handle_write_query then runs the
\* statement on its own executor when the round reported success, and returns.
CommitDone ==
    LET ok == commit_success(co.failed) IN
    /\ co.pc = "commit" /\ co.todo = {}
    /\ execCount' = IF executes_locally(ok)
                    THEN [execCount EXCEPT ![co.node][co.txn] = @ + 1]
                    ELSE execCount
    /\ rounds' = [rounds EXCEPT
                     ![co.txn].result = IF ok THEN "ok" ELSE "fail_commit",
                     ![co.txn].participants =
                         IF ok THEN Cardinality(rounds[co.txn].parts) ELSE 0]
    /\ co' = IdleCo
    /\ UNCHANGED <<nextTxn, net, varsNode, varsElec, prepared_transactions,
                   active_transactions, cpCount, apCount, last, delivered, varsLocal>>

\* _phase2_abort, one peer: ABORT is written without waiting for a response;
\* the peer's worker handles it later (sent), or the send raised (not sent).
AbortSend(sent) ==
    /\ co.pc = "abort" /\ co.todo # {}
    /\ sent => up[NextPeer]
    /\ net' = IF sent
              THEN net \cup {[type |-> "ABORT", to |-> NextPeer, txn |-> co.txn]}
              ELSE net
    /\ co' = [co EXCEPT !.todo = @ \ {NextPeer}]
    /\ rounds' = [rounds EXCEPT ![co.txn].abortSent = @ \cup {NextPeer}]
    /\ UNCHANGED <<nextTxn, varsNode, varsElec, varsPart, last, delivered, varsLocal>>

\* execute_2pc without the return that follows _phase2_abort: the round goes
\* on to _phase2_commit.
AbortDoneFallsThrough ==
    /\ co.pc = "abort" /\ co.todo = {}
    /\ co' = [co EXCEPT !.pc = "commit",
                        !.todo = rounds[co.txn].parts \ {co.node}]
    /\ UNCHANGED <<rounds, nextTxn, net, varsNode, varsElec, varsPart, last, delivered, varsLocal>>

\* End of _phase2_abort: execute_2pc and _handle_write_query return the failure.
AbortDone ==
    /\ co.pc = "abort" /\ co.todo = {}
    /\ rounds' = [rounds EXCEPT ![co.txn].result = "fail_prepare"]
    /\ co' = IdleCo
    /\ UNCHANGED <<nextTxn, net, varsNode, varsElec, varsPart, last, delivered, varsLocal>>

\* A participant's worker thread handles a 2PC message whose sender no longer
\* waits for the response (Node._handle_message dispatch).
HandleLate(m, can_commit) ==
    /\ m \in net
    /\ up[m.to]
    /\ net' = net \ {m}
    /\ IF m.type = "PREPARE" THEN HandlePrepare(m.to, m.txn, WriteQuery, can_commit)
       ELSE IF m.type = "COMMIT" THEN HandleCommit(m.to, m.txn)
       ELSE HandleAbort(m.to, m.txn)
    /\ UNCHANGED <<co, nextTxn, rounds, varsNode, varsElec, last, delivered, varsLocal>>

\* The server of p dispatches a 2PC message that any peer or client sent it
\* (Node._handle_message): the handlers take every message sequence.
Dispatch(p, type, t, q, can_commit) ==
    /\ delivered < MaxMsgs
    /\ delivered' = delivered + 1
    /\ IF type = "PREPARE" THEN HandlePrepare(p, t, q, can_commit)
       ELSE IF type = "COMMIT" THEN HandleCommit(p, t)
       ELSE HandleAbort(p, t)
    /\ last' = [node |-> p, type |-> type, txn |-> t,
                reply |-> IF type = "PREPARE" THEN VoteReply(can_commit)
                          ELSE IF type = "COMMIT" THEN CommitReply(p, t)
                          ELSE "NONE"]
    /\ UNCHANGED <<varsNode, varsElec, varsCo>>

DirectMessage(p, type, t, q, can_commit) ==
    Dispatch(p, type, t, q, can_commit) /\ UNCHANGED varsLocal

(***************************************************************************)
(* Processes, heartbeats and the failure detector.                         *)
(***************************************************************************)

\* Node._init_core: every node adopts the highest configured id.
initial_coordinator == Max(Nodes)

IdleEl == [pc |-> "idle", by |-> "none", todo |-> {}, responses |-> {}]

BootStatus(n) == [m \in Peers(n) |-> TRUE]
BootStale(n) == [m \in Peers(n) |-> FALSE]
NoTransactions == [t \in Txns |-> Absent]

\* The checker thread of n is inside the failure callback (a running election).
CheckerBlocked(n) == el[n].pc # "idle" /\ el[n].by = "chk"

\* More than heartbeat_timeout passes at n without a heartbeat of m recorded.
\* When m runs and sends n heartbeats this is a false suspicion (delayed or
\* lost heartbeats), counted as a fault.
TimePasses(n, m) ==
    LET sending == up[m] /\ node_status[m][n] IN
    /\ up[n] /\ ~stale[n][m]
    /\ sending => faults < MaxFaults
    /\ faults' = IF sending THEN faults + 1 ELSE faults
    /\ stale' = [stale EXCEPT ![n][m] = TRUE]
    /\ UNCHANGED <<up, node_status, varsElec, varsCo, varsPart, last, delivered, varsLocal>>

\* HeartbeatMonitor._send_heartbeats of n to m (only to peers believed alive)
\* and Node._handle_heartbeat / record_heartbeat at m.
SendHeartbeat(n, m) ==
    /\ up[n] /\ node_status[n][m]
    /\ up[m]
    /\ stale[m][n] \/ ~node_status[m][n]
    /\ stale' = [stale EXCEPT ![m][n] = FALSE]
    /\ node_status' = [node_status EXCEPT ![m][n] = TRUE]
    /\ UNCHANGED <<up, faults, varsElec, varsCo, varsPart, last, delivered, varsLocal>>

(***************************************************************************)
(* Bully election.                                                         *)
(***************************************************************************)

higher_nodes(n) == {m \in Nodes : m > n}

\* The threads of a node that call start_election: the heartbeat checker
\* (the failure callback) and a thread started by handle_election_message.
Threads == {"chk", "msg"}

\* A thread outside start_election; outcome is how its last call ended.
IdleThread == [pc |-> "idle", todo |-> {}, responses |-> {}, announced |-> FALSE,
               outcome |-> "none"]

\* handle_coordinator_announcement running the callback on every announcement.
callback_runs_always(old_coordinator, announced) == TRUE

\* handle_coordinator_announcement / _on_coordinator_elected: the callback
\* runs only when the announced id differs from the recorded one.
callback_runs(old_coordinator, announced) == old_coordinator # announced

\* handle_node_failure comparing the failed node with this node's own id.
is_coordinator_failure_self(n, failed) == failed = n

\* handle_node_failure: the failed node is the coordinator the health checker
\* records.
is_coordinator_failure(n, failed) == failed = hc_coordinator_id[n]

\* _become_coordinator, _announce_coordinator and the callback
\* _on_coordinator_elected(self, is_self=True), then start_election's finally.
\* hc0 is the health checker's table when the election began in this step.
BecomeCoordinator(n, hc0) ==
    /\ coordinator_id' = [coordinator_id EXCEPT ![n] = n]
    /\ ann' = ann \cup {<<n, m>> : m \in {x \in Peers(n) : up[x]}}
    /\ hc_coordinator_id' = [hc0 EXCEPT ![n] = n]
    /\ is_active' = [is_active EXCEPT ![n] = TRUE]
    /\ election_in_progress' = [election_in_progress EXCEPT ![n] = FALSE]
    /\ el' = [el EXCEPT ![n] = IdleEl]

\* start_election up to its first send: the in-progress guard, the flag, and
\* with no higher node the node becomes coordinator at once.
start_election(n, by, hc0) ==
    IF election_in_progress[n]
    THEN /\ hc_coordinator_id' = hc0
         /\ UNCHANGED <<coordinator_id, election_in_progress, is_active, el, ann>>
    ELSE IF higher_nodes(n) = {}
    THEN BecomeCoordinator(n, hc0)
    ELSE /\ election_in_progress' = [election_in_progress EXCEPT ![n] = TRUE]
         /\ el' = [el EXCEPT ![n] = [pc |-> "send", by |-> by,
                                     todo |-> higher_nodes(n), responses |-> {}]]
         /\ hc_coordinator_id' = hc0
         /\ UNCHANGED <<coordinator_id, is_active, ann>>

\* HeartbeatMonitor._check_heartbeats finds m timed out and still flagged
\* alive: _mark_node_dead, then HealthChecker.handle_node_failure, which on
\* the coordinator's failure clears its coordinator and calls start_election
\* on this same thread.
CheckHeartbeats(n, m) ==
    /\ up[n] /\ stale[n][m] /\ node_status[n][m]
    /\ ~CheckerBlocked(n)
    /\ node_status' = [node_status EXCEPT ![n][m] = FALSE]
    /\ IF is_coordinator_failure(n, m)
       THEN /\ start_election(n, "chk", [hc_coordinator_id EXCEPT ![n] = NoNode])
            /\ UNCHANGED pending
       ELSE UNCHANGED varsElec
    /\ UNCHANGED <<up, stale, faults, varsCo, varsPart, last, delivered, varsLocal>>

\* A thread started by handle_election_message runs start_election.
RunPending(n) ==
    /\ up[n] /\ pending[n] > 0
    /\ pending' = [pending EXCEPT ![n] = @ - 1]
    /\ start_election(n, "msg", hc_coordinator_id)
    /\ UNCHANGED <<varsNode, varsCo, varsPart, last, delivered, varsLocal>>

\* _send_election_messages, one higher node h: ELECTION is sent and the
\* response awaited.  A running h answers ELECTION_OK from
\* handle_election_message and, when it has no election in progress, starts a
\* thread for its own; a stopped h makes the send raise.  After the last
\* node start_election waits for an announcement (some node answered) or
\* becomes coordinator (none did).
ElectionSend(n) ==
    LET h == Min(el[n].todo)
        answered == up[h]
        responses1 == IF answered THEN el[n].responses \cup {h} ELSE el[n].responses
        todo1 == el[n].todo \ {h}
    IN
    /\ up[n] /\ el[n].pc = "send"
    /\ pending' = IF answered /\ ~election_in_progress[h]
                  THEN [pending EXCEPT ![h] = Min({@ + 1, MaxPending})]
                  ELSE pending
    /\ IF todo1 # {}
       THEN /\ el' = [el EXCEPT ![n].todo = todo1, ![n].responses = responses1]
            /\ UNCHANGED <<hc_coordinator_id, coordinator_id,
                           election_in_progress, is_active, ann>>
       ELSE IF responses1 # {}
       THEN /\ el' = [el EXCEPT ![n].pc = "wait", ![n].todo = {},
                                ![n].responses = responses1]
            /\ UNCHANGED <<hc_coordinator_id, coordinator_id,
                           election_in_progress, is_active, ann>>
       ELSE BecomeCoordinator(n, hc_coordinator_id)
    /\ UNCHANGED <<varsNode, varsCo, varsPart, last, delivered, varsLocal>>

\* _wait_for_coordinator_announcement: the sleep of election_timeout ends and
\* start_election returns whatever coordinator_id holds; finally clears the flag.
ElectionWaitDone(n) ==
    /\ up[n] /\ el[n].pc = "wait"
    /\ election_in_progress' = [election_in_progress EXCEPT ![n] = FALSE]
    /\ el' = [el EXCEPT ![n] = IdleEl]
    /\ UNCHANGED <<hc_coordinator_id, coordinator_id, is_active, pending, ann,
                   varsNode, varsCo, varsPart, last, delivered, varsLocal>>

\* Node._handle_coordinator_announcement at node t for the announcement of f:
\* BullyElection.handle_coordinator_announcement and, when the id changed,
\* Node._on_coordinator_elected(f, is_self=False).
handle_coordinator_announcement(f, t) ==
    /\ <<f, t>> \in ann
    /\ up[t]
    /\ ann' = ann \ {<<f, t>>}
    /\ coordinator_id' = [coordinator_id EXCEPT ![t] = f]
    /\ IF callback_runs(coordinator_id[t], f)
       THEN /\ hc_coordinator_id' = [hc_coordinator_id EXCEPT ![t] = f]
            /\ is_active' = [is_active EXCEPT ![t] = FALSE]
       ELSE UNCHANGED <<hc_coordinator_id, is_active>>
    /\ UNCHANGED <<election_in_progress, el, pending,
                   varsNode, varsCo, varsPart, last, delivered>>

DeliverAnnouncement(f, t) == handle_coordinator_announcement(f, t) /\ UNCHANGED varsLocal

\* The state Node.__init__ and Node.start give node n.
Boot(n) ==
    /\ node_status' = [node_status EXCEPT ![n] = BootStatus(n)]
    /\ stale' = [stale EXCEPT ![n] = BootStale(n)]
    /\ hc_coordinator_id' = [hc_coordinator_id EXCEPT ![n] = initial_coordinator]
    /\ coordinator_id' = [coordinator_id EXCEPT ![n] = initial_coordinator]
    /\ is_active' = [is_active EXCEPT ![n] = (n = initial_coordinator)]
    /\ election_in_progress' = [election_in_progress EXCEPT ![n] = FALSE]
    /\ el' = [el EXCEPT ![n] = IdleEl]
    /\ pending' = [pending EXCEPT ![n] = 0]
    /\ prepared_transactions' = [prepared_transactions EXCEPT ![n] = NoTransactions]
    /\ active_transactions' = [active_transactions EXCEPT ![n] = NoTransactions]

\* The process of n stops: its threads and in-memory state are gone, and the
\* messages on their way to it are lost.  (The state is put back to the boot
\* values here already; nothing reads it while the node is down.)
Crash(n) ==
    /\ up[n]
    /\ faults < MaxFaults
    /\ faults' = faults + 1
    /\ up' = [up EXCEPT ![n] = FALSE]
    /\ Boot(n)
    /\ ann' = {a \in ann : a[2] # n}
    /\ net' = {m \in net : m.to # n}
    /\ co' = IF co.node = n THEN IdleCo ELSE co
    /\ UNCHANGED <<nextTxn, rounds, execCount, cpCount, apCount, last, delivered, varsLocal>>

\* The process of n starts again: Node.__init__ (with _init_core) and start.
Restart(n) ==
    /\ ~up[n]
    /\ faults < MaxFaults
    /\ faults' = faults + 1
    /\ up' = [up EXCEPT ![n] = TRUE]
    /\ Boot(n)
    /\ UNCHANGED <<ann, varsCo, execCount, cpCount, apCount, last, delivered, varsLocal>>

(***************************************************************************)
(* start_election statement by statement.  Nothing in BullyElection holds  *)
(* a lock: the test of election_in_progress, the assignment that sets it,  *)
(* the sends and the sleep are separate steps of the calling thread, and   *)
(* the threads of a node interleave between them.                          *)
(***************************************************************************)

\* start_election's decision after _send_election_messages, taken as
\* "unless every higher node answered".
becomes_coordinator_unless_all(higher, responses) == responses # higher

\* start_election: `if not higher_nodes` and `if responses: ... else:`.
becomes_coordinator(higher, responses) == higher = {} \/ responses = {}

\* Thread th of n is past the test of election_in_progress and before the
\* finally clause of start_election.
PastCheck(n, th) == threads[n][th].pc \in {"checked", "send", "wait"}

Unchanged2PC ==
    UNCHANGED <<varsCo, varsPart, last, delivered, varsLock, varsQuery, varsWire, checker,
                balancer>>

\* HeartbeatMonitor._check_heartbeats of n finds m timed out and still
\* flagged alive: _mark_node_dead, HealthChecker.handle_node_failure and, on
\* the coordinator's failure, the call of start_election on the checker thread.
CheckerCalls(n, m) ==
    /\ up[n] /\ stale[n][m] /\ node_status[n][m]
    /\ threads[n]["chk"].pc = "idle"
    /\ node_status' = [node_status EXCEPT ![n][m] = FALSE]
    /\ IF is_coordinator_failure(n, m)
       THEN /\ hc_coordinator_id' = [hc_coordinator_id EXCEPT ![n] = NoNode]
            /\ threads' = [threads EXCEPT ![n]["chk"] = [IdleThread EXCEPT !.pc = "enter"]]
       ELSE UNCHANGED <<hc_coordinator_id, threads>>
    /\ UNCHANGED <<up, stale, faults, coordinator_id, election_in_progress, is_active,
                   el, pending, ann>>
    /\ Unchanged2PC

\* start_election: `if self.election_in_progress: return None`.
CheckInProgress(n, th) ==
    /\ up[n] /\ threads[n][th].pc = "enter"
    /\ threads' = [threads EXCEPT ![n][th] =
                      IF election_in_progress[n]
                      THEN [IdleThread EXCEPT !.outcome = "skipped"]
                      ELSE [@ EXCEPT !.pc = "checked"]]
    /\ UNCHANGED <<varsNode, varsElec>>
    /\ Unchanged2PC

\* start_election: `self.election_in_progress = True` and the list of
\* higher nodes.
SetInProgress(n, th) ==
    /\ up[n] /\ threads[n][th].pc = "checked"
    /\ election_in_progress' = [election_in_progress EXCEPT ![n] = TRUE]
    /\ threads' = [threads EXCEPT ![n][th].pc = "send", ![n][th].todo = higher_nodes(n)]
    /\ UNCHANGED <<varsNode, hc_coordinator_id, coordinator_id, is_active, el, pending, ann>>
    /\ Unchanged2PC

\* _send_election_messages, one higher node h, with handle_election_message
\* at h: a running h answers ELECTION_OK and, when it sees no election in
\* progress, starts a thread that will call start_election.
SendElection(n, th) ==
    LET h == Min(threads[n][th].todo)
        answered == up[h]
        starts == answered /\ ~election_in_progress[h] /\ threads[h]["msg"].pc = "idle"
        sent == [threads EXCEPT ![n][th].todo = @ \ {h},
                                ![n][th].responses = IF answered THEN @ \cup {h} ELSE @]
    IN
    /\ up[n] /\ threads[n][th].pc = "send" /\ threads[n][th].todo # {}
    /\ threads' = IF starts
                  THEN [sent EXCEPT ![h]["msg"] = [IdleThread EXCEPT !.pc = "enter"]]
                  ELSE sent
    /\ UNCHANGED <<varsNode, varsElec>>
    /\ Unchanged2PC

\* start_election after the sends (or with no higher node): the node becomes
\* coordinator, announces itself and runs the callback, or it goes to wait
\* for an announcement.  `finally` clears the flag when the call returns.
Decide(n, th) ==
    /\ up[n] /\ threads[n][th].pc = "send" /\ threads[n][th].todo = {}
    /\ IF becomes_coordinator(higher_nodes(n), threads[n][th].responses)
       THEN /\ BecomeCoordinator(n, hc_coordinator_id)
            /\ threads' = [threads EXCEPT ![n][th] =
                              [IdleThread EXCEPT !.outcome = "coordinator"]]
            /\ UNCHANGED pending
       ELSE /\ threads' = [threads EXCEPT ![n][th].pc = "wait"]
            /\ UNCHANGED varsElec
    /\ UNCHANGED varsNode
    /\ Unchanged2PC

\* _wait_for_coordinator_announcement: the sleep of election_timeout ends,
\* coordinator_id is returned as it is, and `finally` clears the flag.
WaitReturns(n, th) ==
    /\ up[n] /\ threads[n][th].pc = "wait"
    /\ election_in_progress' = [election_in_progress EXCEPT ![n] = FALSE]
    /\ threads' = [threads EXCEPT ![n][th] = [IdleThread EXCEPT !.outcome = "waited"]]
    /\ UNCHANGED <<varsNode, hc_coordinator_id, coordinator_id, is_active, el, pending, ann>>
    /\ Unchanged2PC

\* Node._handle_coordinator_announcement at t while threads of t may be in
\* start_election: a waiting thread has its announcement.
AnnouncementArrives(f, t) ==
    /\ handle_coordinator_announcement(f, t)
    /\ threads' = [threads EXCEPT ![t] =
                      [th \in Threads |-> IF threads[t][th].pc = "wait"
                                          THEN [threads[t][th] EXCEPT !.announced = TRUE]
                                          ELSE threads[t][th]]]
    /\ UNCHANGED <<varsLock, varsQuery, varsWire, checker, balancer>>

(***************************************************************************)
(* _become_coordinator in two steps.  The assignment of coordinator_id and *)
(* the callback that activates the coordinator role are separated by the   *)
(* blocking sends of _announce_coordinator, and the thread that handles a  *)
(* Coordinator_Announcement runs in between (BullyElection has no lock).   *)
(***************************************************************************)

\* _send_election_messages as in ElectionSend; with no response after the
\* last node, _become_coordinator begins: `self.coordinator_id = self.node_id`.
ElectionSendAssigns(n) ==
    LET h == Min(el[n].todo)
        answered == up[h]
        responses1 == IF answered THEN el[n].responses \cup {h} ELSE el[n].responses
        todo1 == el[n].todo \ {h}
    IN
    /\ up[n] /\ el[n].pc = "send"
    /\ pending' = IF answered /\ ~election_in_progress[h]
                  THEN [pending EXCEPT ![h] = Min({@ + 1, MaxPending})]
                  ELSE pending
    /\ IF todo1 # {}
       THEN /\ el' = [el EXCEPT ![n].todo = todo1, ![n].responses = responses1]
            /\ UNCHANGED coordinator_id
       ELSE IF responses1 # {}
       THEN /\ el' = [el EXCEPT ![n].pc = "wait", ![n].todo = {},
                                ![n].responses = responses1]
            /\ UNCHANGED coordinator_id
       ELSE /\ el' = [el EXCEPT ![n].pc = "announce", ![n].todo = {}]
            /\ coordinator_id' = [coordinator_id EXCEPT ![n] = n]
    /\ UNCHANGED <<hc_coordinator_id, election_in_progress, is_active, ann>>
    /\ UNCHANGED <<varsNode, varsCo, varsPart, last, delivered, varsLocal>>

\* The rest of _become_coordinator: _announce_coordinator has sent the
\* announcements, the callback _on_coordinator_elected(self, is_self=True)
\* sets the health checker's coordinator and activates the role, and
\* start_election's finally clears the flag.
BecomeAnnounces(n) ==
    /\ up[n] /\ el[n].pc = "announce"
    /\ ann' = ann \cup {<<n, m>> : m \in {x \in Peers(n) : up[x]}}
    /\ hc_coordinator_id' = [hc_coordinator_id EXCEPT ![n] = n]
    /\ is_active' = [is_active EXCEPT ![n] = TRUE]
    /\ election_in_progress' = [election_in_progress EXCEPT ![n] = FALSE]
    /\ el' = [el EXCEPT ![n] = IdleEl]
    /\ UNCHANGED <<coordinator_id, pending>>
    /\ UNCHANGED <<varsNode, varsCo, varsPart, last, delivered, varsLocal>>

(***************************************************************************)
(* _check_heartbeats statement by statement.  A pass reads the clock and   *)
(* copies last_heartbeat once, then looks at the peers in turn; worker     *)
(* threads record heartbeats in between (HeartbeatMonitor has no lock).    *)
(***************************************************************************)

\* The checker between two passes (time.sleep(1)); calls[m] counts the
\* failure callbacks made for m.
IdleChecker(n) ==
    [pc |-> "sleep", timed_out |-> [m \in Peers(n) |-> FALSE], todo |-> {},
     calls |-> [m \in Peers(n) |-> 0]]

\* _check_heartbeats marking a timed-out node dead whatever its status.
was_alive_always(status, m) == TRUE

\* _check_heartbeats: `if self.node_status.get(node_id, True)`.
was_alive(status, m) == status[m]

\* A pass begins: current_time = time.time() and the copy of
\* last_heartbeat.items(); timed_out[m] is what
\* `current_time - last_time > self.heartbeat_timeout` gives for these values.
PassStarts(n) ==
    /\ up[n] /\ checker[n].pc = "sleep"
    /\ checker' = [checker EXCEPT ![n].pc = "pass", ![n].timed_out = stale[n],
                                  ![n].todo = Peers(n)]
    /\ UNCHANGED <<varsNode, varsElec, varsCo, varsPart, last, delivered,
                   varsLock, varsQuery, varsWire, threads, balancer>>

\* The pass looks at the next peer m of the copy: timed out and flagged alive,
\* it is marked dead and the failure callback runs on this thread
\* (_mark_node_dead, HealthChecker.handle_node_failure, which starts an
\* election when m is the recorded coordinator).
PassExamines(n) ==
    LET m == Min(checker[n].todo)
        done == checker[n].todo = {m}
        next == [checker EXCEPT ![n].todo = @ \ {m},
                                ![n].pc = IF done THEN "sleep" ELSE "pass"]
    IN
    /\ up[n] /\ checker[n].pc = "pass" /\ checker[n].todo # {}
    /\ ~CheckerBlocked(n)
    /\ IF checker[n].timed_out[m] /\ was_alive(node_status[n], m)
       THEN /\ checker[n].calls[m] < MaxCalls
            /\ node_status' = [node_status EXCEPT ![n][m] = FALSE]
            /\ checker' = [next EXCEPT ![n].calls[m] = @ + 1]
            /\ IF is_coordinator_failure(n, m)
               THEN /\ start_election(n, "chk", [hc_coordinator_id EXCEPT ![n] = NoNode])
                    /\ UNCHANGED pending
               ELSE UNCHANGED varsElec
       ELSE /\ checker' = next
            /\ UNCHANGED <<node_status, varsElec>>
    /\ UNCHANGED <<up, stale, faults, varsCo, varsPart, last, delivered,
                   varsLock, varsQuery, varsWire, threads, balancer>>

(***************************************************************************)
(* LoadBalancer: self.lock = threading.Lock(), and the public operations   *)
(* that enter `with self.lock`.                                            *)
(***************************************************************************)

\* Threads that call the load balancer.
Callers == {"w1", "w2"}

\* The lock when no thread holds it.
NoHolder == "none"

\* The public operations that take the lock once.
SimpleOperations ==
    {"select_node", "record_query_start", "record_query_end", "get_node_load",
     "reset_statistics", "get_statistics"}

LoadBalancerOperations == SimpleOperations \cup {"get_cluster_load"}

\* A caller outside the load balancer; returned counts nothing, it tells the
\* last operation came back.
IdleCaller == [op |-> "none", pc |-> "idle", available_nodes |-> {}]

\* threading.Lock.acquire by thread th returns: the lock is unlocked (a Lock
\* has no owner, the thread that locked it waits like any other).
lock_acquire_returns(lock, th) == lock = NoHolder

\* A thread calls a public operation; get_cluster_load gets the list of nodes.
LoadBalancerCall(th, op, nodes) ==
    /\ balancer.callers[th].pc = "idle"
    /\ op # "get_cluster_load" => nodes = {}
    /\ balancer' = [balancer EXCEPT
           !.callers[th] = [op |-> op, pc |-> "with", available_nodes |-> nodes]]
    /\ UNCHANGED <<varsNode, varsElec, varsCo, varsPart, last, delivered,
                   varsLock, varsQuery, varsWire, threads, checker>>

\* `with self.lock:` is entered: by the operation itself (pc "with"), or by
\* the get_node_load that get_cluster_load calls for the next node of its
\* list while it holds the lock (pc "inner").
LoadBalancerAcquire(th) ==
    LET c == balancer.callers[th] IN
    /\ c.pc \in {"with", "inner"}
    /\ lock_acquire_returns(balancer.lock, th)
    /\ balancer' = [balancer EXCEPT
           !.lock = th,
           !.callers[th].pc =
               IF c.pc = "inner" THEN "inner_held"
               ELSE IF c.op = "get_cluster_load" /\ c.available_nodes # {}
                    THEN "inner" ELSE "held"]
    /\ UNCHANGED <<varsNode, varsElec, varsCo, varsPart, last, delivered,
                   varsLock, varsQuery, varsWire, threads, checker>>

\* The `with` block is left and the lock released: get_node_load inside
\* get_cluster_load returns to the comprehension, any other block returns
\* to the caller.
LoadBalancerRelease(th) ==
    LET c == balancer.callers[th]
        rest == c.available_nodes \ {Min(c.available_nodes)}
    IN
    /\ c.pc \in {"held", "inner_held"}
    /\ balancer' = [balancer EXCEPT
           !.lock = NoHolder,
           !.callers[th] =
               IF c.pc = "held" THEN IdleCaller
               ELSE [c EXCEPT !.available_nodes = rest,
                              !.pc = IF rest = {} THEN "held" ELSE "inner"]]
    /\ UNCHANGED <<varsNode, varsElec, varsCo, varsPart, last, delivered,
                   varsLock, varsQuery, varsWire, threads, checker>>

(***************************************************************************)
(* Lock manager, and the TransactionManager calls that release locks.      *)
(* Every method body runs under LockManager.lock, so each grant check,     *)
(* release and release-all is one step; a waiting acquire_lock is a thread *)
(* that sleeps between grant checks.  One thread waits at a time.          *)
(***************************************************************************)

\* Transaction ids and resources of the lock scenarios (tests/test_transaction.py).
LockTxns == {"TXN-001", "TXN-002"}
Resources == {"users", "orders"}
LockTypes == {"SHARED", "EXCLUSIVE"}

\* acquire_lock(timeout=None), the default.
NoTimeout == -1

\* LockManager.wait_timeout, seconds.
wait_timeout == 30

\* Timeouts a caller passes, seconds.
Timeouts == {NoTimeout, 0, 1}

\* time.time() - start_time in whole seconds, as read after a sleep: the
\* sleep of 0.1 s is a lower bound, the thread may wake any time later.
ClockReadings == {0, 1, wait_timeout}

\* "timeout = timeout or self.wait_timeout": None and 0 are both falsy.
effective_timeout(timeout) ==
    IF timeout = NoTimeout \/ timeout = 0 THEN wait_timeout ELSE timeout

\* "time.time() - start_time >= timeout" with the rebound timeout.
timed_out(elapsed, timeout) == elapsed >= effective_timeout(timeout)

Lock(lock_type, transaction_id) ==
    [lock_type |-> lock_type, transaction_id |-> transaction_id]

NoLocks == [r \in Resources |-> <<>>]
NoTransactionLocks == [t \in LockTxns |-> {}]
IdleAcq == [pc |-> "idle", txn |-> "", resource |-> "", lock_type |-> "",
            timeout |-> NoTimeout]

\* The last terminal transition that returned True: the transaction, the
\* call, and whether the transaction held a lock when it was made.
\* No call observed yet.
NoCall == [op |-> "none", txn |-> "", resource |-> "", result |-> FALSE, removed |-> 0,
           path |-> <<>>]

\* A call of op that returned result, having removed that many locks and
\* taken the transaction's record through the states of path.
Call(op, t, r, result, removed, path) ==
    [op |-> op, txn |-> t, resource |-> r, result |-> result, removed |-> removed,
     path |-> path]

NoTerminal == [txn |-> "", op |-> "none", held |-> FALSE]
Terminal(t, op) == [txn |-> t, op |-> op, held |-> transaction_locks[t] # {}]

\* LockManager._can_acquire with an upgrade that ignores the other holders.
can_acquire_upgrade(lks, r, t, mode) ==
    LET existing == lks[r]
        has_lock == \E i \in 1..Len(existing) : existing[i].transaction_id = t
    IN  IF existing = <<>> THEN TRUE
        ELSE IF mode = "SHARED"
             THEN has_lock \/ \A i \in 1..Len(existing) : existing[i].lock_type = "SHARED"
        ELSE has_lock

\* LockManager._can_acquire without the "already holds the lock" case of a
\* SHARED request.
can_acquire_no_reentry(lks, r, t, mode) ==
    LET existing == lks[r]
        has_lock == \E i \in 1..Len(existing) : existing[i].transaction_id = t
    IN  IF existing = <<>> THEN TRUE
        ELSE IF mode = "SHARED"
             THEN \A i \in 1..Len(existing) : existing[i].lock_type = "SHARED"
        ELSE has_lock /\ \A i \in 1..Len(existing) : existing[i].transaction_id = t

\* LockManager._can_acquire.
can_acquire(lks, r, t, mode) ==
    LET existing == lks[r]
        has_lock == \E i \in 1..Len(existing) : existing[i].transaction_id = t
    IN  IF existing = <<>> THEN TRUE
        ELSE IF mode = "SHARED"
             THEN has_lock \/ \A i \in 1..Len(existing) : existing[i].lock_type = "SHARED"
        ELSE IF mode = "EXCLUSIVE"
             THEN has_lock /\ \A i \in 1..Len(existing) : existing[i].transaction_id = t
        ELSE FALSE

\* acquire_lock, the granted branch: the new Lock is appended and the
\* resource is added to the transaction's set.
granted_locks(lks, r, t, mode) == [lks EXCEPT ![r] = Append(@, Lock(mode, t))]
granted_transaction_locks(tl, r, t) == [tl EXCEPT ![t] = @ \cup {r}]

\* release_lock removing only the first lock of the transaction.
remaining_after_first(L, t) ==
    LET mine == {i \in 1..Len(L) : L[i].transaction_id = t}
        first == CHOOSE i \in mine : \A j \in mine : i <= j
    IN  IF mine = {} THEN L
        ELSE [i \in 1..(Len(L) - 1) |-> IF i < first THEN L[i] ELSE L[i + 1]]

\* release_lock: the locks of the resource that other transactions hold.
remaining(L, t) == SelectSeq(L, LAMBDA k : k.transaction_id # t)

\* release_lock: a resource without locks returns False before anything is
\* touched; otherwise the transaction's locks go and the resource leaves its set.
release_lock_locks(lks, r, t) ==
    IF lks[r] = <<>> THEN lks ELSE [lks EXCEPT ![r] = remaining(@, t)]
release_lock_transaction_locks(lks, tl, r, t) ==
    IF lks[r] = <<>> THEN tl ELSE [tl EXCEPT ![t] = @ \ {r}]
\* release_lock returning True for every resource that has a lock list.
release_lock_result_listed(lks, r, t) == lks[r] # <<>>

release_lock_result(lks, r, t) ==
    lks[r] # <<>> /\ Len(remaining(lks[r], t)) < Len(lks[r])

\* release_all_locks: release_lock for every resource of the transaction's set
\* (the calls touch different resources, so their order does not matter).
\* release_all_locks stopping after the first resource of the set.
release_all_locks_locks_once(lks, tl, t) ==
    IF tl[t] = {} THEN lks
    ELSE LET r == CHOOSE x \in tl[t] : TRUE IN release_lock_locks(lks, r, t)

release_all_locks_locks(lks, tl, t) ==
    [r \in Resources |-> IF r \in tl[t] THEN release_lock_locks(lks, r, t)[r]
                         ELSE lks[r]]
release_all_locks_transaction_locks(lks, tl, t) ==
    [tl EXCEPT ![t] = {r \in @ : lks[r] = <<>>}]

\* The keys of the two dicts that go with a lock table in which no list and
\* no set is empty.
keys_of(lks, tl) ==
    [locks |-> {r \in Resources : lks[r] # <<>>},
     transaction_locks |-> {t \in LockTxns : tl[t] # {}}]

\* acquire_lock, the granted branch: `if resource not in self.locks` and
\* `if transaction_id not in self.transaction_locks` make the missing keys.
granted_keys(k, r, t) ==
    [locks |-> k.locks \cup {r}, transaction_locks |-> k.transaction_locks \cup {t}]

\* release_lock deleting neither the emptied list nor the emptied set.
release_lock_keys_kept(k, lks, tl, r, t) == k

\* release_lock: `del self.locks[resource]` when the filtered list is empty,
\* `del self.transaction_locks[transaction_id]` when the set is.
release_lock_keys(k, lks, tl, r, t) ==
    IF r \notin k.locks THEN k
    ELSE [locks |-> IF remaining(lks[r], t) = <<>> THEN k.locks \ {r} ELSE k.locks,
          transaction_locks |->
              IF t \in k.transaction_locks /\ tl[t] \ {r} = {}
              THEN k.transaction_locks \ {t} ELSE k.transaction_locks]

\* release_all_locks: release_lock for each resource of the copied set.
RECURSIVE release_each_keys(_, _, _, _, _)
release_each_keys(k, lks, tl, S, t) ==
    IF S = {} THEN k
    ELSE LET r == CHOOSE x \in S : TRUE
         IN  release_each_keys(release_lock_keys(k, lks, tl, r, t),
                               release_lock_locks(lks, r, t),
                               release_lock_transaction_locks(lks, tl, r, t),
                               S \ {r}, t)

release_all_locks_keys(k, lks, tl, t) ==
    IF t \notin k.transaction_locks THEN k ELSE release_each_keys(k, lks, tl, tl[t], t)

\* LockManager.acquire_lock, from the call to its first sleep or its return:
\* start_time is taken, the grant check runs, and (not granted) the clock is
\* read again at once, so the elapsed time of that comparison is 0.
AcquireLock(t, r, mode, timeout) ==
    /\ can_acquire(locks, r, t, mode) => Len(locks[r]) < MaxLocks
    /\ IF can_acquire(locks, r, t, mode)
       THEN /\ locks' = granted_locks(locks, r, t, mode)
            /\ transaction_locks' = granted_transaction_locks(transaction_locks, r, t)
            /\ keys' = granted_keys(keys, r, t)
            /\ UNCHANGED acq
       ELSE IF timed_out(0, timeout)
       THEN UNCHANGED <<locks, transaction_locks, keys, acq>>
       ELSE /\ acq.pc = "idle"
            /\ acq' = [pc |-> "sleep", txn |-> t, resource |-> r, lock_type |-> mode,
                       timeout |-> timeout]
            /\ UNCHANGED <<locks, transaction_locks, keys>>
    /\ UNCHANGED <<tm_active, terminal, varsNode, varsElec, varsCo, varsPart, last, delivered, varsQuery, varsWire, varsThreads, call>>

\* The waiting thread wakes from time.sleep(0.1) and runs the loop body again;
\* elapsed is what its clock comparison reads if the lock is still not granted.
AcquireRetry(elapsed) ==
    /\ acq.pc = "sleep"
    /\ IF can_acquire(locks, acq.resource, acq.txn, acq.lock_type)
       THEN /\ locks' = granted_locks(locks, acq.resource, acq.txn, acq.lock_type)
            /\ transaction_locks' =
                   granted_transaction_locks(transaction_locks, acq.resource, acq.txn)
            /\ keys' = granted_keys(keys, acq.resource, acq.txn)
            /\ acq' = IdleAcq
       ELSE IF timed_out(elapsed, acq.timeout)
       THEN /\ acq' = IdleAcq
            /\ UNCHANGED <<locks, transaction_locks, keys>>
       ELSE UNCHANGED <<locks, transaction_locks, keys, acq>>
    /\ UNCHANGED <<tm_active, terminal, varsNode, varsElec, varsCo, varsPart, last, delivered, varsQuery, varsWire, varsThreads, call>>

\* LockManager.release_lock.
release_lock(r, t) ==
    /\ locks' = release_lock_locks(locks, r, t)
    /\ transaction_locks' = release_lock_transaction_locks(locks, transaction_locks, r, t)
    /\ keys' = release_lock_keys(keys, locks, transaction_locks, r, t)
    /\ UNCHANGED <<tm_active, terminal, acq, varsNode, varsElec, varsCo, varsPart, last, delivered, varsQuery, varsWire, varsThreads>>

ReleaseLock(r, t) == release_lock(r, t) /\ UNCHANGED call

\* LockManager.release_lock with its return value observed.
ReleaseLockReturns(r, t) ==
    /\ release_lock(r, t)
    /\ call' = Call("release_lock", t, r, release_lock_result(locks, r, t),
                    Len(locks[r]) - Len(locks'[r]), <<>>)

\* LockManager.release_all_locks.
release_all_locks(t) ==
    /\ locks' = release_all_locks_locks(locks, transaction_locks, t)
    /\ transaction_locks' = release_all_locks_transaction_locks(locks, transaction_locks, t)
    /\ keys' = release_all_locks_keys(keys, locks, transaction_locks, t)
    /\ UNCHANGED <<tm_active, terminal, acq, varsNode, varsElec, varsCo, varsPart, last, delivered, varsQuery, varsWire, varsThreads>>

ReleaseAllLocks(t) == release_all_locks(t) /\ UNCHANGED call

\* The number of locks in the table.
lock_count(lks) ==
    LET n(r) == Len(lks[r]) IN n("users") + n("orders")

\* LockManager.release_all_locks observed at its return (it returns None).
ReleaseAllLocksReturns(t) ==
    /\ release_all_locks(t)
    /\ call' = Call("release_all_locks", t, "", TRUE, lock_count(locks) - lock_count(locks'), <<>>)

\* TransactionManager.begin_transaction with a given id.
TmBegin(t) ==
    /\ tm_active[t] = Absent
    /\ tm_active' = begin_transaction(tm_active, t)
    /\ UNCHANGED <<locks, transaction_locks, keys, acq, terminal,
                   varsNode, varsElec, varsCo, varsPart, last, delivered, varsQuery, varsWire, varsThreads, call>>

\* TransactionManager.acquire_lock: raises for an unknown id (_get_transaction),
\* otherwise LockManager.acquire_lock with the default timeout.
TmAcquireLock(t, r, mode) ==
    /\ tm_active[t] # Absent
    /\ AcquireLock(t, r, mode, NoTimeout)

\* TransactionManager.commit_transaction: raises for an unknown id; otherwise
\* releases the transaction's locks, removes it and returns True.
tm_commit(t) ==
    /\ IF commit_raises(tm_active, t)
       THEN UNCHANGED <<locks, transaction_locks, keys, tm_active, terminal>>
       ELSE /\ locks' = release_all_locks_locks(locks, transaction_locks, t)
            /\ transaction_locks' =
                   release_all_locks_transaction_locks(locks, transaction_locks, t)
            /\ keys' = release_all_locks_keys(keys, locks, transaction_locks, t)
            /\ tm_active' = commit_transaction(tm_active, t)
            /\ terminal' = Terminal(t, "commit")
    /\ UNCHANGED <<acq, varsNode, varsElec, varsCo, varsPart, last, delivered, varsQuery, varsWire, varsThreads>>

TmCommit(t) == tm_commit(t) /\ UNCHANGED call

\* TransactionManager.abort_transaction: returns False for an unknown id;
\* otherwise releases the transaction's locks, removes it and returns True.
tm_abort(t) ==
    /\ IF tm_active[t] = Absent
       THEN UNCHANGED <<locks, transaction_locks, keys, tm_active, terminal>>
       ELSE /\ locks' = release_all_locks_locks(locks, transaction_locks, t)
            /\ transaction_locks' =
                   release_all_locks_transaction_locks(locks, transaction_locks, t)
            /\ keys' = release_all_locks_keys(keys, locks, transaction_locks, t)
            /\ tm_active' = abort_transaction(tm_active, t)
            /\ terminal' = Terminal(t, "abort")
    /\ UNCHANGED <<acq, varsNode, varsElec, varsCo, varsPart, last, delivered, varsQuery, varsWire, varsThreads>>

TmAbort(t) == tm_abort(t) /\ UNCHANGED call

\* The calls of the TransactionManager observed at their return, with any
\* id, registered or not.
TmBeginReturns(t) ==
    /\ tm_active' = begin_transaction(tm_active, t)
    /\ call' = Call("begin_transaction", t, "", TRUE, 0, begin_path(tm_active, t))
    /\ UNCHANGED <<locks, transaction_locks, keys, acq, terminal,
                   varsNode, varsElec, varsCo, varsPart, last, delivered, varsQuery, varsWire, varsThreads>>

TmPrepareReturns(t) ==
    /\ tm_active' = IF tm_active[t] = Absent THEN tm_active
                    ELSE prepare_transaction(tm_active, t)
    /\ call' = Call("prepare_transaction", t, "", tm_active[t] # Absent, 0,
                    prepare_path(tm_active, t))
    /\ UNCHANGED <<locks, transaction_locks, keys, acq, terminal,
                   varsNode, varsElec, varsCo, varsPart, last, delivered, varsQuery, varsWire, varsThreads>>

TmCommitReturns(t) ==
    /\ tm_commit(t)
    /\ call' = Call("commit_transaction", t, "", ~commit_raises(tm_active, t),
                    lock_count(locks) - lock_count(locks'), commit_path(tm_active, t))

TmAbortReturns(t) ==
    /\ tm_abort(t)
    /\ call' = Call("abort_transaction", t, "", tm_active[t] # Absent,
                    lock_count(locks) - lock_count(locks'), abort_path(tm_active, t))

\* begin_transaction(t) followed at once by commit_transaction(t), as one
\* caller runs them; the result is that of the commit.
BeginThenCommit(t) ==
    LET reg == begin_transaction(tm_active, t) IN
    /\ IF commit_raises(reg, t)
       THEN /\ tm_active' = reg
            /\ UNCHANGED <<locks, transaction_locks, keys, terminal>>
       ELSE /\ tm_active' = commit_transaction(reg, t)
            /\ locks' = release_all_locks_locks(locks, transaction_locks, t)
            /\ transaction_locks' =
                   release_all_locks_transaction_locks(locks, transaction_locks, t)
            /\ keys' = release_all_locks_keys(keys, locks, transaction_locks, t)
            /\ terminal' = Terminal(t, "commit")
    /\ call' = Call("begin;commit", t, "", ~commit_raises(reg, t),
                    lock_count(locks) - lock_count(locks'),
                    begin_path(tm_active, t) \o Tail(commit_path(reg, t)))
    /\ UNCHANGED <<acq, varsNode, varsElec, varsCo, varsPart, last, delivered, varsQuery, varsWire, varsThreads>>

(***************************************************************************)
(* Query routing (Node._handle_query, Node.execute_query,                  *)
(* Coordinator.handle_query) and the read path's load balancer.            *)
(***************************************************************************)

\* Statements, by their first word after strip() as the sender wrote it.
Statements == {"select", "INSERT", "SHOW"}

\* str.upper() on the first words used here.
upper(word) ==
    CASE word = "select" -> "SELECT"
      [] word = "INSERT" -> "INSERT"
      [] word = "SHOW" -> "SHOW"
      [] OTHER -> word

\* The prefixes parse_query_type tests, in its order.
QueryTypes == {"SELECT", "INSERT", "UPDATE", "DELETE", "CREATE", "DROP", "ALTER", "TRUNCATE"}

parse_query_type(query) ==
    IF upper(query) \in QueryTypes THEN upper(query) ELSE "UNKNOWN"

is_write_query(query) ==
    parse_query_type(query) \in
        {"INSERT", "UPDATE", "DELETE", "CREATE", "DROP", "ALTER", "TRUNCATE"}

is_read_query(query) == parse_query_type(query) = "SELECT"

\* Who wrote a Query message: a client, execute_query forwarding to the
\* coordinator, or _execute_remote_query of the read path; "api" is a direct
\* call of Node.execute_query.
Origins == {"client", "forward", "balancer", "api"}

NoQuery == [to |-> NoNode, query |-> "", from_coordinator |-> FALSE, origin |-> "none"]

\* create_query_message as execute_query and _execute_remote_query call it:
\* the data carries query and transaction_id, and no from_coordinator key.
query_message(to, query, origin) ==
    [to |-> to, query |-> query, from_coordinator |-> FALSE, origin |-> origin]

\* sorted(available_nodes) as a sequence.
sorted(S) ==
    CHOOSE q \in [1..Cardinality(S) -> S] : \A i, j \in 1..Cardinality(S) : i < j => q[i] < q[j]

\* _select_round_robin: sorted_nodes[current_index % len(sorted_nodes)].
select_round_robin(available_nodes, index) ==
    sorted(available_nodes)[(index % Cardinality(available_nodes)) + 1]

\* _handle_read_query: the alive peers, and self appended when absent.
available_node_ids(c) == get_alive_nodes(c) \cup {c}

\* _handle_query: `not from_coordinator and is_write_query(query)`.
routes_to_execute_query(query, from_coordinator) ==
    ~from_coordinator /\ is_write_query(query)

\* One handled request: the node that handled it, what it was, what the node
\* did with it, and the node whose executor or coordinator got it next.
Handled(n, query, from_coordinator, origin, route, target, avail, index) ==
    [node |-> n, query |-> query, from_coordinator |-> from_coordinator,
     origin |-> origin, route |-> route, target |-> target,
     available |-> avail, index |-> index]

\* query_executor.execute(query, transaction_id) on the node's own executor.
ExecuteLocally(n, query, from_coordinator, origin) ==
    /\ qlog' = Append(qlog, Handled(n, query, from_coordinator, origin, "local", n, {}, 0))
    /\ qmsg' = NoQuery
    /\ UNCHANGED <<current_index, varsNode, varsElec, varsCo, varsPart, last, delivered,
                   varsLock, varsWire, varsThreads>>

\* Coordinator._handle_read_query: select a node; run the statement locally
\* or send it to the selected node and wait.
HandleReadQuery(c, query, from_coordinator, origin) ==
    LET avail == available_node_ids(c)
        selected == select_round_robin(avail, current_index[c])
    IN  /\ current_index' = [current_index EXCEPT ![c] = @ + 1]
        /\ qlog' = Append(qlog, Handled(c, query, from_coordinator, origin, "balance",
                                        selected, avail, current_index[c]))
        /\ qmsg' = IF selected = c THEN NoQuery ELSE query_message(selected, query, "balancer")
        /\ UNCHANGED <<varsNode, varsElec, varsCo, varsPart, last, delivered, varsLock, varsWire, varsThreads>>

\* Coordinator._handle_write_query: the 2PC round starts (Spec2PC follows it).
HandleWriteQuery(c, query, from_coordinator, origin) ==
    /\ StartRound(c)
    /\ qlog' = Append(qlog, Handled(c, query, from_coordinator, origin, "2pc", c, {}, 0))
    /\ qmsg' = NoQuery
    /\ UNCHANGED <<current_index, varsLock, varsWire, varsThreads>>

\* A request that ends with an error result and touches nothing else.
QueryFails(n, query, from_coordinator, origin, error) ==
    /\ qlog' = Append(qlog, Handled(n, query, from_coordinator, origin, error, NoNode, {}, 0))
    /\ qmsg' = NoQuery
    /\ UNCHANGED <<current_index, varsNode, varsElec, varsCo, varsPart, last, delivered,
                   varsLock, varsWire, varsThreads>>

\* Node.execute_query: the active coordinator plans the statement by its
\* type; any other node sends it to the coordinator it knows and waits.
execute_query(n, query, from_coordinator, origin) ==
    IF is_active[n]
    THEN IF is_write_query(query)
         THEN HandleWriteQuery(n, query, from_coordinator, origin)
         ELSE IF is_read_query(query)
         THEN HandleReadQuery(n, query, from_coordinator, origin)
         ELSE QueryFails(n, query, from_coordinator, origin, "unknown_type")
    ELSE IF coordinator_id[n] = NoNode
    THEN QueryFails(n, query, from_coordinator, origin, "no_coordinator")
    ELSE /\ qlog' = Append(qlog, Handled(n, query, from_coordinator, origin, "forward",
                                         coordinator_id[n], {}, 0))
         /\ qmsg' = query_message(coordinator_id[n], query, "forward")
         /\ UNCHANGED <<current_index, varsNode, varsElec, varsCo, varsPart, last,
                        delivered, varsLock, varsWire, varsThreads>>

\* Node._handle_query on a Query message.
handle_query(n, query, from_coordinator, origin) ==
    IF routes_to_execute_query(query, from_coordinator)
    THEN execute_query(n, query, from_coordinator, origin)
    ELSE ExecuteLocally(n, query, from_coordinator, origin)

\* A client's Query message reaches node n while no node waits on another.
ClientQuery(n, query, from_coordinator) ==
    /\ up[n]
    /\ qmsg = NoQuery
    /\ Len(qlog) < MaxQueries
    /\ handle_query(n, query, from_coordinator, "client")

\* The Query message a node sent reaches its destination.
DeliverQuery ==
    /\ qmsg # NoQuery
    /\ up[qmsg.to]
    /\ Len(qlog) < MaxQueries
    /\ handle_query(qmsg.to, qmsg.query, qmsg.from_coordinator, qmsg.origin)

\* Node.execute_query called on node n itself.
ExecuteQuery(n, query) ==
    /\ up[n]
    /\ qmsg = NoQuery
    /\ Len(qlog) < MaxQueries
    /\ execute_query(n, query, FALSE, "api")

(***************************************************************************)
(* Transport: SocketServer._handle_client / _receive_message and           *)
(* SocketClient._receive_message, with the checksum of security/checksum.  *)
(***************************************************************************)

\* The largest length the server accepts: 10 * 1024 * 1024.
max_message_length == 10485760

\* Values of the 4-byte length field: the bounds of the accepted range and
\* the values next to them.
Lengths == {0, 1, max_message_length, max_message_length + 1}

\* What a request and a response say, without the checksum field.
RequestBodies == [type : {"PREPARE", "COMMIT", "ABORT"}, txn : Txns, query : {WriteQuery}]
ResponseBodies == [type : {"VOTE_YES", "ACK"}, txn : {Min(Txns)}, query : {EmptyQuery}]

\* A message without a checksum field.
NoChecksum == <<>>

\* calculate_checksum: the SHA-256 digest of the canonical serialization of
\* the fields; two different bodies do not share a digest.
calculate_checksum(body) == <<"sha256", body>>

\* add_checksum.
add_checksum(body) == [body |-> body, checksum |-> calculate_checksum(body)]

\* The messages a socket can deliver for the bodies B: the sender's message,
\* one without a checksum field, one carrying the checksum of another body.
WireMessages(B) ==
    {[body |-> b, checksum |-> c] : b \in B, c \in {NoChecksum} \cup {calculate_checksum(x) : x \in B}}

\* A frame: the length field, and the message its payload decodes to.
Frames(B) == [length : Lengths, message : WireMessages(B)]

\* verify_message_checksum testing only that the field is there.
has_checksum(message) == message.checksum # NoChecksum

\* verify_message_checksum.
verify_message_checksum(message) ==
    /\ message.checksum # NoChecksum
    /\ calculate_checksum(message.body) = message.checksum

\* SocketServer._receive_message: the length test.
invalid_length(message_length) ==
    message_length <= 0 \/ message_length > max_message_length

\* The frame passes both tests of SocketServer._receive_message.
Accepted(frame) ==
    ~invalid_length(frame.length) /\ verify_message_checksum(frame.message)

NoFrame == [length |-> 0,
            message |-> [body |-> [type |-> "", txn |-> 0, query |-> EmptyQuery],
                         checksum |-> NoChecksum]]

NoRx == [path |-> "none", node |-> NoNode, frame |-> NoFrame, outcome |-> "none",
         error |-> "", payload_read |-> FALSE, responded |-> FALSE, count |-> 0]

Rx(path, n, frame, outcome, error, payload_read, responded) ==
    [path |-> path, node |-> n, frame |-> frame, outcome |-> outcome, error |-> error,
     payload_read |-> payload_read, responded |-> responded, count |-> rx.count + 1]

\* _handle_client's `except ValueError`: the error is logged and an error
\* response is written; the message handler is not called.
ServerRejects(n, frame, error, payload_read) ==
    /\ rx' = Rx("server", n, frame, "rejected", error, payload_read, TRUE)
    /\ UNCHANGED <<varsNode, varsElec, varsCo, varsPart, last, delivered, varsLock, varsQuery, varsThreads>>

\* SocketServer._handle_client on node n, for a connection that delivers
\* the frame; can_commit is how the node's own prepare would end.
ServerReceive(n, frame, can_commit) ==
    /\ up[n]
    /\ rx.count < MaxFrames
    /\ ~can_commit => Accepted(frame) /\ frame.message.body.type = "PREPARE"
    /\ IF invalid_length(frame.length)
       THEN ServerRejects(n, frame, "Invalid message length", FALSE)
       ELSE IF ~verify_message_checksum(frame.message)
       THEN ServerRejects(n, frame, "Message checksum verification failed", TRUE)
       ELSE /\ Dispatch(n, frame.message.body.type, frame.message.body.txn,
                        frame.message.body.query, can_commit)
            /\ rx' = Rx("server", n, frame, "dispatched", "", TRUE, last'.reply # "NONE")
            /\ UNCHANGED <<varsLock, varsQuery, varsThreads>>

\* SocketClient._receive_message on node n, reading the response to a request
\* it sent: no test of the length; zero bytes of payload are an error.
ClientReceive(n, frame) ==
    /\ up[n]
    /\ rx.count < MaxFrames
    /\ rx' = IF frame.length = 0
             THEN Rx("client", n, frame, "error", "Failed to receive message data",
                     FALSE, FALSE)
             ELSE IF ~verify_message_checksum(frame.message)
             THEN Rx("client", n, frame, "error", "Message checksum verification failed",
                     TRUE, FALSE)
             ELSE Rx("client", n, frame, "returned", "", TRUE, FALSE)
    /\ UNCHANGED <<varsNode, varsElec, varsCo, varsPart, last, delivered, varsLock, varsQuery, varsThreads>>

\* What a Heartbeat that reaches the server of n says: its type and sender.
HeartbeatBodies(n) == [type : {"HEARTBEAT"}, sender_id : Peers(n)]

\* Node._handle_heartbeat answering with an acknowledgement.
handle_heartbeat_response_ack(message) == "HEARTBEAT_ACK"

\* Node._handle_heartbeat: what it returns to _handle_client.
handle_heartbeat_response(message) == "NONE"

\* SocketServer._handle_client on node n for a connection that delivers a
\* Heartbeat frame: after the transport's tests, Node._handle_heartbeat calls
\* record_heartbeat(sender_id), and `if response:` decides on the write.
ServerReceivesHeartbeat(n, frame) ==
    LET sender_id == frame.message.body.sender_id IN
    /\ up[n]
    /\ rx.count < MaxFrames
    /\ IF invalid_length(frame.length)
       THEN ServerRejects(n, frame, "Invalid message length", FALSE)
       ELSE IF ~verify_message_checksum(frame.message)
       THEN ServerRejects(n, frame, "Message checksum verification failed", TRUE)
       ELSE /\ stale' = [stale EXCEPT ![n][sender_id] = FALSE]
            /\ node_status' = [node_status EXCEPT ![n][sender_id] = TRUE]
            /\ rx' = Rx("server", n, frame, "dispatched", "", TRUE,
                        handle_heartbeat_response(frame.message) # "NONE")
            /\ UNCHANGED <<up, faults, varsElec, varsCo, varsPart, last, delivered,
                           varsLock, varsQuery, varsThreads>>

(***************************************************************************)
(* Specifications.                                                         *)
(***************************************************************************)

\* The nodes of D stopped and every running node's checker has marked them
\* dead; a stopped node's own maps are as its next start leaves them.
InitDetected(D) ==
    /\ up = [n \in Nodes |-> n \notin D]
    /\ node_status = [n \in Nodes |->
                         IF n \in D THEN BootStatus(n) ELSE [m \in Peers(n) |-> m \notin D]]
    /\ stale = [n \in Nodes |->
                   IF n \in D THEN BootStale(n) ELSE [m \in Peers(n) |-> m \in D]]
    /\ faults = Cardinality(D)

InitRoles ==
    /\ hc_coordinator_id = [n \in Nodes |-> initial_coordinator]
    /\ coordinator_id = [n \in Nodes |-> initial_coordinator]
    /\ election_in_progress = [n \in Nodes |-> FALSE]
    /\ is_active = [n \in Nodes |-> n = initial_coordinator]
    /\ el = [n \in Nodes |-> IdleEl]
    /\ pending = [n \in Nodes |-> 0]
    /\ ann = {}
    /\ co = IdleCo
    /\ nextTxn = 1
    /\ rounds = [t \in Txns |-> NoRound]
    /\ net = {}
    /\ prepared_transactions = [n \in Nodes |-> NoTransactions]
    /\ active_transactions = [n \in Nodes |-> NoTransactions]
    /\ execCount = [n \in Nodes |-> [t \in Txns |-> 0]]
    /\ cpCount = [n \in Nodes |-> [t \in Txns |-> 0]]
    /\ apCount = [n \in Nodes |-> [t \in Txns |-> 0]]
    /\ last = [node |-> NoNode, type |-> "NONE", txn |-> 0, reply |-> "NONE"]
    /\ delivered = 0
    /\ threads = [n \in Nodes |-> [th \in Threads |-> IdleThread]]
    /\ checker = [n \in Nodes |-> IdleChecker(n)]
    /\ balancer = [lock |-> NoHolder, callers |-> [th \in Callers |-> IdleCaller]]

InitCluster == InitDetected({}) /\ InitRoles

InitLocks ==
    /\ call = NoCall
    /\ locks = NoLocks
    /\ transaction_locks = NoTransactionLocks
    /\ keys = keys_of(NoLocks, NoTransactionLocks)
    /\ tm_active = [t \in LockTxns |-> Absent]
    /\ acq = IdleAcq
    /\ terminal = NoTerminal

InitRouting ==
    /\ current_index = [n \in Nodes |-> 0]
    /\ qmsg = NoQuery
    /\ qlog = <<>>
    /\ rx = NoRx

Init == InitCluster /\ InitLocks /\ InitRouting

\* The write path under every transport outcome, with participants that may
\* crash and the coordinator's own failure detector.
Next2PC ==
    \/ \E c \in Nodes : StartWrite(c)
    \/ \E b \in BOOLEAN : PrepareAnswered(b)
    \/ \E k \in {"SEND_FAILED", "NO_RESPONSE", "INVALID"} : PrepareUnanswered(k)
    \/ PrepareTimedOut
    \/ Phase1Done
    \/ CommitAnswered
    \/ CommitUnanswered
    \/ CommitTimedOut
    \/ CommitDone
    \/ \E sent \in BOOLEAN : AbortSend(sent)
    \/ AbortDone
    \/ \E m \in net : \E b \in BOOLEAN : HandleLate(m, b)
    \/ \E m \in Peers(initial_coordinator) : Crash(m)
    \/ \E m \in Peers(initial_coordinator) : TimePasses(initial_coordinator, m)
    \/ \E m \in Peers(initial_coordinator) : CheckHeartbeats(initial_coordinator, m)

Spec2PC == Init /\ [][Next2PC]_vars

\* 2PC rounds in which no node stops and every message that is sent arrives
\* and is handled: a vote comes back in time, or the coordinator's read times
\* out while the peer's worker thread still handles the message, in any order
\* with the messages sent after it (one worker thread per connection).
NextDelivered ==
    \/ \E c \in Nodes : StartWrite(c)
    \/ \E b \in BOOLEAN : PrepareAnswered(b)
    \/ PrepareTimedOut
    \/ Phase1Done
    \/ CommitAnswered
    \/ CommitTimedOut
    \/ CommitDone
    \/ AbortSend(TRUE)
    \/ AbortDone
    \/ \E m \in net : \E b \in BOOLEAN : HandleLate(m, b)

SpecDelivered == Init /\ [][NextDelivered]_vars

\* The participant handlers under every sequence of 2PC messages.
NextParticipant ==
    \E p \in Nodes : \E type \in {"PREPARE", "COMMIT", "ABORT"} :
        \E t \in Txns : \E q \in Queries : \E b \in BOOLEAN :
            DirectMessage(p, type, t, q, b)

SpecParticipant == Init /\ [][NextParticipant]_vars

\* Failure detection and election under crashes, restarts and false suspicions.
NextElection ==
    \/ \E n \in Nodes : Crash(n)
    \/ \E n \in Nodes : Restart(n)
    \/ \E n \in Nodes : \E m \in Peers(n) : TimePasses(n, m)
    \/ \E n \in Nodes : \E m \in Peers(n) : SendHeartbeat(n, m)
    \/ \E n \in Nodes : \E m \in Peers(n) : CheckHeartbeats(n, m)
    \/ \E n \in Nodes : RunPending(n)
    \/ \E n \in Nodes : ElectionSend(n)
    \/ \E n \in Nodes : ElectionWaitDone(n)
    \/ \E a \in ann : DeliverAnnouncement(a[1], a[2])

SpecElection == Init /\ [][NextElection]_vars

\* The lock manager under every interleaving of its calls.
NextLock ==
    \/ \E t \in LockTxns : \E r \in Resources : \E mode \in LockTypes :
          \E timeout \in Timeouts : AcquireLock(t, r, mode, timeout)
    \/ \E elapsed \in ClockReadings : AcquireRetry(elapsed)
    \/ \E t \in LockTxns : \E r \in Resources : ReleaseLock(r, t)
    \/ \E t \in LockTxns : ReleaseAllLocks(t)

SpecLock == Init /\ [][NextLock]_vars

\* Transactions that take their locks through the TransactionManager and end
\* by commit or abort.
NextTm ==
    \/ \E t \in LockTxns : TmBegin(t)
    \/ \E t \in LockTxns : \E r \in Resources : \E mode \in LockTypes :
          TmAcquireLock(t, r, mode)
    \/ \E elapsed \in ClockReadings : AcquireRetry(elapsed)
    \/ \E t \in LockTxns : TmCommit(t)
    \/ \E t \in LockTxns : TmAbort(t)

SpecTm == Init /\ [][NextTm]_vars

\* Every list of at most MaxLocks locks on one resource, reachable or not.
LockLists ==
    UNION {[1..k -> [lock_type : LockTypes, transaction_id : LockTxns]] : k \in 0..MaxLocks}

\* The grant decision on every lock table: the table is drawn from LockLists
\* and acquire_lock and release_lock are applied to it.
InitGrant ==
    /\ InitCluster
    /\ \E r \in Resources : \E L \in LockLists :
          /\ locks = [x \in Resources |-> IF x = r THEN L ELSE <<>>]
          /\ transaction_locks =
                 [t \in LockTxns |-> IF \E i \in 1..Len(L) : L[i].transaction_id = t
                                     THEN {r} ELSE {}]
    /\ tm_active = [t \in LockTxns |-> Absent]
    /\ acq = IdleAcq
    /\ terminal = NoTerminal
    /\ call = NoCall
    /\ keys = keys_of(locks, transaction_locks)
    /\ InitRouting

NextGrant ==
    \/ \E t \in LockTxns : \E r \in Resources : \E mode \in LockTypes :
          \E timeout \in Timeouts : AcquireLock(t, r, mode, timeout)
    \/ \E elapsed \in ClockReadings : AcquireRetry(elapsed)
    \/ \E t \in LockTxns : \E r \in Resources : ReleaseLock(r, t)

SpecGrant == InitGrant /\ [][NextGrant]_vars

\* The lists _can_acquire lets a resource have: the locks of one transaction,
\* or Shared locks only.
GrantedLists ==
    {L \in LockLists :
        \/ \A i, j \in 1..Len(L) : L[i].transaction_id = L[j].transaction_id
        \/ \A i \in 1..Len(L) : L[i].lock_type = "SHARED"}

\* The lock table drawn from every pair of such lists, with the resource sets
\* of the transactions that go with it.
InitTables ==
    /\ \E L1 \in GrantedLists : \E L2 \in GrantedLists :
          /\ locks = [r \in Resources |-> IF r = "users" THEN L1 ELSE L2]
          /\ transaction_locks =
                 [t \in LockTxns |->
                     {r \in Resources : \E i \in 1..Len(locks[r]) : locks[r][i].transaction_id = t}]
    /\ acq = IdleAcq
    /\ terminal = NoTerminal
    /\ call = NoCall
    /\ keys = keys_of(locks, transaction_locks)

\* release_lock and release_all_locks on every lock table.
InitRelease ==
    /\ InitCluster
    /\ InitTables
    /\ tm_active = [t \in LockTxns |-> Absent]
    /\ InitRouting

NextRelease ==
    \/ \E t \in LockTxns : \E r \in Resources : ReleaseLockReturns(r, t)
    \/ \E t \in LockTxns : ReleaseAllLocksReturns(t)

SpecRelease == InitRelease /\ [][NextRelease]_vars

\* The TransactionManager under every sequence of its calls, over every lock
\* table its lock manager can hold.
InitRegistry == InitRelease

NextRegistry ==
    \/ \E t \in LockTxns : TmBeginReturns(t)
    \/ \E t \in LockTxns : TmPrepareReturns(t)
    \/ \E t \in LockTxns : TmCommitReturns(t)
    \/ \E t \in LockTxns : TmAbortReturns(t)
    \/ \E t \in LockTxns : BeginThenCommit(t)

SpecRegistry == InitRegistry /\ [][NextRegistry]_vars

\* Query routing on a cluster whose coordinator is node 3 and whose other
\* nodes run or have stopped and been marked dead.
InitQuery ==
    /\ \E D \in SUBSET (Nodes \ {initial_coordinator}) : InitDetected(D)
    /\ InitRoles
    /\ InitLocks
    /\ InitRouting

NextQuery ==
    \/ \E n \in Nodes : \E query \in Statements : \E from_coordinator \in BOOLEAN :
          ClientQuery(n, query, from_coordinator)
    \/ DeliverQuery
    \/ \E n \in Nodes : \E query \in Statements : ExecuteQuery(n, query)

SpecQuery == InitQuery /\ [][NextQuery]_vars

\* The transport under every frame a connection can deliver.
NextWire ==
    \/ \E n \in Nodes : \E frame \in Frames(RequestBodies) : \E can_commit \in BOOLEAN :
          ServerReceive(n, frame, can_commit)
    \/ \E n \in Nodes : \E frame \in Frames(ResponseBodies) : ClientReceive(n, frame)

SpecWire == Init /\ [][NextWire]_vars

\* The coordinator may have stopped sending; no node has noticed yet.
InitThreads ==
    /\ \E D \in {{}, {initial_coordinator}} :
          /\ up = [n \in Nodes |-> n \notin D]
          /\ faults = Cardinality(D)
    /\ node_status = [n \in Nodes |-> BootStatus(n)]
    /\ stale = [n \in Nodes |-> BootStale(n)]
    /\ InitRoles /\ InitLocks /\ InitRouting

\* Elections under every interleaving of the threads of each node.
NextThreads ==
    \/ \E n \in Nodes : \E m \in Peers(n) : TimePasses(n, m)
    \/ \E n \in Nodes : \E m \in Peers(n) : CheckerCalls(n, m)
    \/ \E n \in Nodes : \E th \in Threads : CheckInProgress(n, th)
    \/ \E n \in Nodes : \E th \in Threads : SetInProgress(n, th)
    \/ \E n \in Nodes : \E th \in Threads : SendElection(n, th)
    \/ \E n \in Nodes : \E th \in Threads : Decide(n, th)
    \/ \E n \in Nodes : \E th \in Threads : WaitReturns(n, th)
    \/ \E f \in Nodes : \E t \in Peers(f) : AnnouncementArrives(f, t)

SpecThreads == InitThreads /\ [][NextThreads]_vars

\* The server of one node under every Heartbeat frame a connection can
\* deliver, with the node's failure detector: its clock and its checker.
NextHeartbeat ==
    LET n == Min(Nodes) IN
    \/ \E frame \in Frames(HeartbeatBodies(n)) : ServerReceivesHeartbeat(n, frame)
    \/ \E m \in Peers(n) : TimePasses(n, m)
    \/ \E m \in Peers(n) : CheckHeartbeats(n, m)

SpecHeartbeat == Init /\ [][NextHeartbeat]_vars

\* The failure detector of one node: its clock, its checker thread, the
\* election the callback runs on that thread, and the heartbeats of its peers
\* recorded by worker threads.
NextChecker ==
    LET n == Min(Nodes) IN
    \/ \E m \in Peers(n) : TimePasses(n, m)
    \/ \E m \in Peers(n) : SendHeartbeat(m, n)
    \/ PassStarts(n)
    \/ PassExamines(n)
    \/ ElectionSend(n)
    \/ ElectionWaitDone(n)

SpecChecker == Init /\ [][NextChecker]_vars

\* The initial coordinator stops and starts again while the other nodes elect:
\* checker threads, election threads with _become_coordinator in two steps,
\* and the threads that handle Coordinator_Announcement.
NextRole ==
    \/ Crash(initial_coordinator)
    \/ Restart(initial_coordinator)
    \/ \E n \in Nodes : \E m \in Peers(n) : ~up[m] /\ TimePasses(n, m)
    \/ \E n \in Nodes : \E m \in Peers(n) : SendHeartbeat(n, m)
    \/ \E n \in Nodes : \E m \in Peers(n) : CheckHeartbeats(n, m)
    \/ \E n \in Nodes : RunPending(n)
    \/ \E n \in Nodes : ElectionSendAssigns(n)
    \/ \E n \in Nodes : BecomeAnnounces(n)
    \/ \E n \in Nodes : ElectionWaitDone(n)
    \/ \E a \in ann : DeliverAnnouncement(a[1], a[2])

SpecRole == Init /\ [][NextRole]_vars

\* Two threads call the public operations of one LoadBalancer.
NextBalancer ==
    \/ \E th \in Callers : \E op \in LoadBalancerOperations : \E nodes \in SUBSET Nodes :
           LoadBalancerCall(th, op, nodes)
    \/ \E th \in Callers : LoadBalancerAcquire(th)
    \/ \E th \in Callers : LoadBalancerRelease(th)

SpecBalancer == Init /\ [][NextBalancer]_vars

\* All three nodes keep running while heartbeats are lost between them for a
\* while (at most MaxFaults losses, then every heartbeat sent arrives): sender
\* threads, checker threads, and the elections a false suspicion of the
\* coordinator starts.
NextPartition ==
    \/ \E n \in Nodes : \E m \in Peers(n) : TimePasses(n, m)
    \/ \E n \in Nodes : \E m \in Peers(n) : SendHeartbeat(n, m)
    \/ \E n \in Nodes : \E m \in Peers(n) : CheckHeartbeats(n, m)
    \/ \E n \in Nodes : RunPending(n)
    \/ \E n \in Nodes : ElectionSend(n)
    \/ \E n \in Nodes : ElectionWaitDone(n)
    \/ \E a \in ann : DeliverAnnouncement(a[1], a[2])

\* The sender thread runs every interval and the checker thread every second,
\* started threads run, blocking sends and the election sleep end, and
\* accepted messages are handled.  Losing a heartbeat is not fair.
FairPartition ==
    /\ WF_vars(\E n \in Nodes : \E m \in Peers(n) : SendHeartbeat(n, m))
    /\ WF_vars(\E n \in Nodes : \E m \in Peers(n) : CheckHeartbeats(n, m))
    /\ WF_vars(\E n \in Nodes : RunPending(n))
    /\ WF_vars(\E n \in Nodes : ElectionSend(n))
    /\ WF_vars(\E n \in Nodes : ElectionWaitDone(n))
    /\ WF_vars(\E a \in ann : DeliverAnnouncement(a[1], a[2]))

SpecPartition == Init /\ [][NextPartition]_vars /\ FairPartition

\* Scenario 4 of the specification: the initial coordinator stops for good,
\* the network between running nodes is reliable, the executors accept every
\* statement, and no heartbeat of a running node is late.
NextFailover ==
    \/ Crash(initial_coordinator)
    \/ \E n \in Nodes : \E m \in Peers(n) : ~up[m] /\ TimePasses(n, m)
    \/ \E n \in Nodes : \E m \in Peers(n) : CheckHeartbeats(n, m)
    \/ \E n \in Nodes : RunPending(n)
    \/ \E n \in Nodes : ElectionSend(n)
    \/ \E n \in Nodes : ElectionWaitDone(n)
    \/ \E a \in ann : DeliverAnnouncement(a[1], a[2])
    \/ \E c \in Nodes : StartWrite(c)
    \/ PrepareAnswered(TRUE)
    \/ co.todo # {} /\ ~up[NextPeer] /\ PrepareUnanswered("SEND_FAILED")
    \/ Phase1Done
    \/ CommitAnswered
    \/ CommitDone
    \/ co.todo # {} /\ AbortSend(up[NextPeer])
    \/ AbortDone
    \/ \E m \in net : HandleLate(m, TRUE)

\* Time passes, the checker thread runs every second, started threads run,
\* blocking sends and the election sleep end, and accepted messages are handled.
FairFailover ==
    /\ WF_vars(\E n \in Nodes : \E m \in Peers(n) : ~up[m] /\ TimePasses(n, m))
    /\ WF_vars(\E n \in Nodes : \E m \in Peers(n) : CheckHeartbeats(n, m))
    /\ WF_vars(\E n \in Nodes : RunPending(n))
    /\ WF_vars(\E n \in Nodes : ElectionSend(n))
    /\ WF_vars(\E n \in Nodes : ElectionWaitDone(n))
    /\ WF_vars(\E a \in ann : DeliverAnnouncement(a[1], a[2]))

SpecFailover == Init /\ [][NextFailover]_vars /\ FairFailover

(***************************************************************************)
(* Properties.                                                             *)
(***************************************************************************)

RoundDone(t) == rounds[t].result # "none"
Others(t) == rounds[t].parts \ {rounds[t].coord}
AllVotedYes(t) == \A p \in Others(t) : rounds[t].answers[p] = "VOTE_YES"
ExecutedOnAll(t) == \A n \in rounds[t].parts : execCount[n][t] >= 1
ExecutedOnNone(t) == \A n \in rounds[t].parts : execCount[n][t] = 0
LateFor(t) == {m \in net : m.txn = t}

\* C1: when the coordinator's write handling returns, the statement has been
\* executed on the coordinator and every participant of the round, or on none.
C1_AtomicAtReturn ==
    [][\A t \in Txns :
          (~RoundDone(t) /\ RoundDone(t)') => (ExecutedOnAll(t)' \/ ExecutedOnNone(t)')]_vars

\* C2: the decision is Commit only if every participant other than the
\* coordinator answered VOTE_YES; once some participant gave any other answer
\* no COMMIT is sent to anyone, and when the round ends ABORT has been sent to
\* every participant other than the coordinator.
C2_CommitOnlyIfAllYes ==
    \A t \in Txns :
        /\ rounds[t].decision = "commit" => AllVotedYes(t)
        /\ (\E p \in Others(t) : rounds[t].answers[p] \in {"VOTE_NO", "NO_VOTE"})
              => /\ rounds[t].commitSent = {}
                 /\ rounds[t].decision # "commit"
                 /\ RoundDone(t) => /\ rounds[t].abortSent = Others(t)
                                    /\ rounds[t].result = "fail_prepare"

\* C2 witness: a finished round in which one participant voted YES, another
\* did not vote YES, and ABORT went to both.
C2_Witness ==
    \E t \in Txns : \E p, r \in Others(t) :
        /\ RoundDone(t)
        /\ rounds[t].answers[p] = "VOTE_YES"
        /\ rounds[t].answers[r] \in {"VOTE_NO", "NO_VOTE"}
        /\ {p, r} \subseteq rounds[t].abortSent

\* C3: once every participant has voted YES the round is reported as committed
\* and the coordinator performs its local write, whatever the COMMIT replies.
C3_CommitDespiteAckFailure ==
    \A t \in Txns :
        (RoundDone(t) /\ AllVotedYes(t))
            => (rounds[t].result = "ok" /\ execCount[rounds[t].coord][t] = 1)

\* C4: for every committed transaction whose round has ended and whose
\* messages have all been handled, Execute ran exactly once on every running
\* participant of the round (the coordinator included) and no prepared map
\* holds the transaction.
C4_CommittedExecutedOnce ==
    \A t \in Txns :
        (rounds[t].decision = "commit" /\ RoundDone(t) /\ LateFor(t) = {})
            => /\ \A n \in rounds[t].parts : up[n] => execCount[n][t] = 1
               /\ \A n \in Nodes : prepared_transactions[n][t] = Absent

\* C5: for every transaction whose decision is Abort, CommitPrepared has not
\* been invoked on any node, during or after the round.
C5_AbortNeverCommits ==
    \A t \in Txns :
        rounds[t].decision = "abort" => \A n \in Nodes : cpCount[n][t] = 0

\* C5 witness: an aborted round, ended, in which a participant had voted YES
\* and has since handled the ABORT.
C5_Witness ==
    \E t \in Txns : \E p \in Others(t) :
        /\ rounds[t].result = "fail_prepare"
        /\ rounds[t].answers[p] = "VOTE_YES"
        /\ apCount[p][t] = 1
        /\ LateFor(t) = {}

\* C6: a COMMIT for a transaction that is not in the prepared map is answered
\* with ERROR, invokes neither CommitPrepared nor Execute, and leaves the
\* prepared map and the registry as they were.
C6_CommitWithoutPrepare ==
    [][\A p \in Nodes : \A t \in Txns :
          ( /\ delivered' = delivered + 1
            /\ last'.node = p /\ last'.type = "COMMIT" /\ last'.txn = t
            /\ prepared_transactions[p][t] = Absent )
          => /\ last'.reply = "ERROR"
             /\ cpCount' = cpCount /\ execCount' = execCount
             /\ prepared_transactions' = prepared_transactions
             /\ active_transactions' = active_transactions]_vars

\* C6 witness: the last message was a COMMIT answered ERROR for a transaction
\* that was prepared and aborted before, and nothing was ever executed for it.
C6_Witness ==
    /\ last.type = "COMMIT" /\ last.reply = "ERROR"
    /\ prepared_transactions[last.node][last.txn] = Absent
    /\ apCount[last.node][last.txn] = 1
    /\ cpCount[last.node][last.txn] = 0

Live == {n \in Nodes : up[n]}

\* BullyElection.is_coordinator with the coordinator role active.
ActingCoordinator(n) == up[n] /\ coordinator_id[n] = n /\ is_active[n]

\* No election is running or about to run and no announcement is in flight.
Quiescent ==
    /\ ann = {}
    /\ \A n \in Nodes : el[n].pc = "idle" /\ pending[n] = 0
                        /\ ~election_in_progress[n]

\* Quiescent, and every running node's liveness map is accurate and fresh:
\* no step other than a new fault changes the election state from here.
Steady ==
    /\ Quiescent
    /\ \A n \in Live : \A m \in Peers(n) :
          /\ node_status[n][m] = up[m]
          /\ up[m] => ~stale[n][m]

\* C7: in every quiescent state at most one node is coordinator with its
\* coordinator role active.
C7_OneCoordinatorAtQuiescence ==
    Steady => Cardinality({n \in Nodes : ActingCoordinator(n)}) <= 1

\* C8: once the live set is stable the highest live node is the coordinator
\* and every live node agrees on it.  A steady state lasts until the next
\* fault, so the claim requires the agreement in every steady state.
C8_AgreementOnHighestLive ==
    (Steady /\ Live # {}) =>
        /\ \A n \in Live : coordinator_id[n] = Max(Live)
        /\ {n \in Live : ActingCoordinator(n)} = {Max(Live)}

\* The failure detector of n marks m dead in this step.
MarksDead(n, m) == up[n] /\ up'[n] /\ node_status[n][m] /\ ~node_status'[n][m]

\* C10: whenever the detector of n marks dead the node that n's election
\* state records as coordinator, an election runs on n after the step (or n,
\* having no higher node, has made itself coordinator in it).  The step is
\* taken from a quiescent state, so every earlier election, a falsely
\* suspected coordinator's re-announcement included, has run to its end.
C10_CoordinatorLossStartsElection ==
    [][\A n \in Nodes : \A m \in Peers(n) :
          (Quiescent /\ MarksDead(n, m) /\ coordinator_id[n] = m)
              => (election_in_progress'[n] \/ coordinator_id'[n] = n)]_vars

\* Nodes 1 and 2 have detected the failure of 3, node 2 is the active
\* coordinator and node 1 has adopted it.
FailoverDone ==
    /\ ~node_status[1][3] /\ ~node_status[2][3]
    /\ ActingCoordinator(2)
    /\ coordinator_id[1] = 2

\* C9: after coordinator 3 stops, nodes 1 and 2 detect it, node 2 becomes the
\* active coordinator and node 1 adopts it (eventually, and for good); a write
\* that node 2 coordinates once it has marked 3 dead ends with success and
\* participants = 2.
C9_Failover ==
    /\ (~up[3]) ~> FailoverDone
    /\ [](FailoverDone => []FailoverDone)
    /\ [](\A t \in Txns :
            (RoundDone(t) /\ rounds[t].coord = 2 /\ 3 \notin rounds[t].parts)
                => (rounds[t].result = "ok" /\ rounds[t].participants = 2))

\* C9 witness: failover is complete and a write coordinated by node 2 has
\* succeeded with two participants.
C9_Witness ==
    /\ FailoverDone
    /\ \E t \in Txns : /\ rounds[t].coord = 2 /\ rounds[t].result = "ok"
                       /\ rounds[t].participants = 2
                       /\ execCount[1][t] = 1 /\ execCount[2][t] = 1

\* Transactions holding a lock of the given type on r.
Holders(r, lock_type) ==
    {t \in LockTxns : \E i \in 1..Len(locks[r]) : locks[r][i] = Lock(lock_type, t)}

\* The locks of t in a resource's list, in order.
HeldBy(L, t) == SelectSeq(L, LAMBDA k : k.transaction_id = t)

\* C11: every resource has at most one transaction holding an Exclusive lock,
\* and when a transaction holds Exclusive no other transaction holds Shared.
C11_LockMutualExclusion ==
    \A r \in Resources :
        /\ Cardinality(Holders(r, "EXCLUSIVE")) <= 1
        /\ \A t \in Holders(r, "EXCLUSIVE") : Holders(r, "SHARED") \subseteq {t}

\* C11 witness: a transaction holds Shared and Exclusive on a resource (it
\* upgraded) while the other transaction's request for it is kept waiting.
C11_Witness ==
    \E r \in Resources : \E t \in LockTxns :
        /\ t \in Holders(r, "EXCLUSIVE") /\ t \in Holders(r, "SHARED")
        /\ acq.pc = "sleep" /\ acq.resource = r /\ acq.txn # t

\* The grant predicate of the specification.
Grantable(lks, r, t, mode) ==
    LET others == {i \in 1..Len(lks[r]) : lks[r][i].transaction_id # t}
        holds == \E i \in 1..Len(lks[r]) : lks[r][i].transaction_id = t
    IN  IF mode = "SHARED"
        THEN (\A i \in others : lks[r][i].lock_type # "EXCLUSIVE") \/ holds
        ELSE others = {}

\* C12: on every lock table, for every resource, transaction and mode, the
\* grant decision of Acquire equals the specified predicate.
C12_GrantDecision ==
    \A r \in Resources : \A t \in LockTxns : \A mode \in LockTypes :
        can_acquire(locks, r, t, mode) = Grantable(locks, r, t, mode)

\* C12 witness: on a table where the other transaction holds Exclusive and
\* the requester holds a lock too (no run reaches it from the empty table), a
\* Shared request of the requester is grantable through the second disjunct
\* alone, and its Exclusive request was refused and waits.
C12_Witness ==
    \E r \in Resources : \E t \in LockTxns : \E u \in LockTxns \ {t} :
        /\ u \in Holders(r, "EXCLUSIVE")
        /\ HeldBy(locks[r], t) # <<>>
        /\ can_acquire(locks, r, t, "SHARED")
        /\ acq = [pc |-> "sleep", txn |-> t, resource |-> r, lock_type |-> "EXCLUSIVE",
                  timeout |-> 1]
        /\ ~Grantable(locks, r, t, "EXCLUSIVE")

\* C13: Acquire with timeout 0 on a resource whose lock cannot be granted
\* returns after its single grant check: such a call never sleeps.
C13_ZeroTimeoutNeverSleeps ==
    acq.pc = "sleep" => acq.timeout # 0

\* C14: when Commit(t) or Abort(t) returns true (t leaves the registry in that
\* step), t holds no lock on any resource afterwards and the locks of every
\* other transaction are as they were.
C14_TerminalReleasesLocks ==
    [][\A t \in LockTxns :
          (tm_active[t] # Absent /\ tm_active'[t] = Absent)
          => /\ \A r \in Resources : HeldBy(locks'[r], t) = <<>>
             /\ transaction_locks'[t] = {}
             /\ \A u \in LockTxns \ {t} :
                   /\ transaction_locks'[u] = transaction_locks[u]
                   /\ \A r \in Resources : HeldBy(locks'[r], u) = HeldBy(locks[r], u)]_vars

\* C14 witness: a commit returned True for a transaction that held locks; it
\* is out of the registry and holds nothing, and the other transaction still
\* holds a lock.
C14_Witness ==
    \E t \in LockTxns : \E u \in LockTxns \ {t} :
        /\ terminal = [txn |-> t, op |-> "commit", held |-> TRUE]
        /\ tm_active[t] = Absent
        /\ \A r \in Resources : HeldBy(locks[r], t) = <<>>
        /\ \E r \in Resources : HeldBy(locks[r], u) # <<>>

\* C15 (as stated): in every state, every running node holds a peer alive
\* exactly when that peer's last recorded heartbeat is at most the timeout old.
C15_AliveIffFreshHeartbeat ==
    \A n \in Live : \A m \in Peers(n) : node_status[n][m] <=> ~stale[n][m]

\* C18: on the coordinator's write path the local write is executed exactly
\* when the round reports success: not before the round ends, once after a
\* successful round, and not at all after a failed one; a round in which some
\* participant did not vote YES ends as a failure of the prepare phase.
C18_LocalWriteIffRoundSuccess ==
    \A t \in Txns :
        rounds[t].coord \in Nodes =>
            /\ execCount[rounds[t].coord][t] = IF rounds[t].result = "ok" THEN 1 ELSE 0
            /\ (RoundDone(t) /\ ~AllVotedYes(t)) => rounds[t].result = "fail_prepare"

\* C18 witness: a round that ended in the prepare phase because one peer could
\* not be reached while the other voted YES; the coordinator did not execute.
C18_Witness ==
    \E t \in Txns : \E p, r \in Others(t) :
        /\ rounds[t].result = "fail_prepare"
        /\ rounds[t].answers[p] = "NO_VOTE"
        /\ rounds[t].answers[r] = "VOTE_YES"
        /\ execCount[rounds[t].coord][t] = 0

\* The selections of node c's load balancer, in order.
Selections(c) == SelectSeq(qlog, LAMBDA e : e.node = c /\ e.route = "balance")

\* The read statements node c received from clients, in order.
ClientReads(c) ==
    SelectSeq(qlog, LAMBDA e : e.node = c /\ is_read_query(e.query) /\ ~e.from_coordinator
                                /\ e.origin \in {"client", "api"})

\* Any n consecutive selections of one balancer over the same n nodes return
\* each of them once, and counted from index 0 they come in ascending order.
RoundRobinFair ==
    \A c \in Nodes : \A S \in SUBSET Nodes :
        LET B == Selections(c)
            n == Cardinality(S)
            Window(i) == i..(i + n - 1)
            Fixed(i) == i + n - 1 <= Len(B) /\ \A j \in Window(i) : B[j].available = S
        IN  n > 0 =>
              /\ \A i \in 1..Len(B) : Fixed(i) => {B[j].target : j \in Window(i)} = S
              /\ Fixed(1) => \A j, k \in Window(1) : j < k => B[j].target < B[k].target

\* C16 (as stated): every Query message handled without the from_coordinator
\* flag went through ExecuteQuery whatever its statement type: a node that is
\* not the active coordinator forwarded it to its coordinator_id, and the
\* active coordinator planned it (balancer for reads, 2PC for writes).
C16_UnflaggedQueryGoesThroughExecuteQuery ==
    \A i \in 1..Len(qlog) :
        LET e == qlog[i]
        IN  (e.origin # "api" /\ ~e.from_coordinator) =>
                IF is_active[e.node]
                THEN e.route = IF is_write_query(e.query) THEN "2pc"
                               ELSE IF is_read_query(e.query) THEN "balance"
                               ELSE "unknown_type"
                ELSE e.route = "forward" /\ e.target = coordinator_id[e.node]

\* C17 (as stated): round-robin selection is fair, and on coordinator 3 of
\* cluster {1,2,3} with all nodes alive the first three reads it receives are
\* dispatched to nodes 1, 2, 3 in that order.
C17_RoundRobinReads ==
    /\ RoundRobinFair
    /\ available_node_ids(initial_coordinator) = Nodes =>
          \A k \in 1..Len(ClientReads(initial_coordinator)) :
              k <= 3 => ClientReads(initial_coordinator)[k].target = k

\* Everything but the record of the last frame read.
NodeState == <<varsNode, varsElec, varsCo, varsPart, last, delivered, varsLock, varsQuery, varsThreads>>

\* C19: when the server reads a message whose checksum is missing or does
\* not match its other fields, the message handler is not invoked: the
\* message is rejected, an error response is sent, no node state changes, and
\* when the length was acceptable the error is the checksum failure.
C19_ChecksumVerifiedBeforeDispatch ==
    [][(rx'.count # rx.count /\ rx'.path = "server"
           /\ (rx'.frame.message.checksum = NoChecksum
               \/ rx'.frame.message.checksum # calculate_checksum(rx'.frame.message.body)))
       => /\ rx'.outcome = "rejected"
          /\ rx'.responded
          /\ ~invalid_length(rx'.frame.length)
                => rx'.error = "Message checksum verification failed"
          /\ UNCHANGED NodeState]_vars

\* C19 witness: a node that prepared a transaction reads a COMMIT for it
\* whose checksum was computed over another body; it rejects the message with
\* the checksum error and has committed nothing.
C19_Witness ==
    /\ rx.path = "server" /\ rx.outcome = "rejected"
    /\ rx.error = "Message checksum verification failed"
    /\ rx.frame.message.body.type = "COMMIT"
    /\ rx.frame.message.checksum # NoChecksum
    /\ prepared_transactions[rx.node][rx.frame.message.body.txn] # Absent
    /\ cpCount[rx.node][rx.frame.message.body.txn] = 0

\* C20 (as stated): on the server's and on the client's receive path a frame
\* whose length field is 0 or greater than 10 MiB is a protocol error: its
\* payload is not read, nothing is dispatched or returned, no state changes.
C20_BadLengthIsProtocolError ==
    [][(rx'.count # rx.count
           /\ (rx'.frame.length = 0 \/ rx'.frame.length > max_message_length))
       => /\ rx'.outcome \in {"rejected", "error"}
          /\ ~rx'.payload_read
          /\ UNCHANGED NodeState]_vars

\* C25: release_lock(resource, txn) removes every lock txn holds on the
\* resource and nothing else (the locks of other transactions on it and every
\* other resource are as before), and it returns True exactly when at least
\* one lock was removed.
C25_ReleaseFrame ==
    [][call'.op = "release_lock" =>
          LET r == call'.resource
              t == call'.txn
          IN  /\ HeldBy(locks'[r], t) = <<>>
              /\ locks'[r] = SelectSeq(locks[r], LAMBDA k : k.transaction_id # t)
              /\ \A x \in Resources \ {r} : locks'[x] = locks[x]
              /\ \A u \in LockTxns \ {t} : transaction_locks'[u] = transaction_locks[u]
              /\ call'.result <=> HeldBy(locks[r], t) # <<>>]_vars

\* C25 witness: a transaction that held two locks on a resource released it:
\* the call returned True, both are gone, and its lock on the other resource
\* and the other transaction's lock there are still in place.
C25_Witness ==
    \E r \in Resources : \E x \in Resources \ {r} : \E t \in LockTxns : \E u \in LockTxns \ {t} :
        /\ call = Call("release_lock", t, r, TRUE, 2, <<>>)
        /\ HeldBy(locks[r], t) = <<>>
        /\ HeldBy(locks[x], t) # <<>>
        /\ HeldBy(locks[x], u) # <<>>

\* C26: after release_all_locks(txn) returns, txn holds no lock on any
\* resource and the locks of every other transaction are as before the call.
C26_ReleaseAllFrame ==
    [][call'.op = "release_all_locks" =>
          LET t == call'.txn
          IN  /\ \A r \in Resources : HeldBy(locks'[r], t) = <<>>
              /\ transaction_locks'[t] = {}
              /\ \A u \in LockTxns \ {t} :
                    /\ transaction_locks'[u] = transaction_locks[u]
                    /\ \A r \in Resources : HeldBy(locks'[r], u) = HeldBy(locks[r], u)]_vars

\* C26 witness: release_all_locks removed locks of a transaction on both
\* resources while the other transaction keeps a lock on each of them.
C26_Witness ==
    \E t \in LockTxns : \E u \in LockTxns \ {t} :
        /\ call.op = "release_all_locks" /\ call.txn = t /\ call.removed = 2
        /\ \A r \in Resources : HeldBy(locks[r], t) = <<>> /\ HeldBy(locks[r], u) # <<>>

\* The transitions of the transaction state machine, with the creation of a
\* record and the removal of a finished one.
StateMachine ==
    {<<Absent, "ACTIVE">>,
     <<"ACTIVE", "PREPARING">>, <<"PREPARING", "PREPARED">>, <<"PREPARING", "ACTIVE">>,
     <<"PREPARED", "COMMITTING">>, <<"ACTIVE", "COMMITTING">>, <<"COMMITTING", "COMMITTED">>,
     <<"ACTIVE", "ABORTING">>, <<"PREPARING", "ABORTING">>, <<"PREPARED", "ABORTING">>,
     <<"COMMITTING", "ABORTING">>, <<"ABORTING", "ABORTED">>,
     <<"COMMITTED", Absent>>, <<"ABORTED", Absent>>}

\* C21 (as stated): every state change a call makes to a transaction record
\* is a transition of the state machine, and after a Prepare that returned
\* True the record is in state PREPARED.
C21_StateMachineFollowed ==
    /\ \A i \in 1..(Len(call.path) - 1) : <<call.path[i], call.path[i + 1]>> \in StateMachine
    /\ (call.op = "prepare_transaction" /\ call.result) => tm_active[call.txn] = "PREPARED"

\* C22: begin_transaction(t) with t in the registry returns t and leaves every
\* record, the lock table and the resource sets as they were; with t absent
\* it creates a record in state ACTIVE and changes nothing else.
C22_BeginIdempotent ==
    [][call'.op = "begin_transaction" =>
          LET t == call'.txn
          IN  /\ call'.result
              /\ UNCHANGED <<locks, transaction_locks>>
              /\ \A u \in LockTxns \ {t} : tm_active'[u] = tm_active[u]
              /\ tm_active'[t] = IF tm_active[t] # Absent THEN tm_active[t] ELSE "ACTIVE"]_vars

\* C22 witness: begin_transaction was called with the id of a record in state
\* PREPARED whose transaction holds locks; the record is still PREPARED, the
\* locks are held, and the other transaction's record is there too.
C22_Witness ==
    \E t \in LockTxns : \E u \in LockTxns \ {t} :
        /\ call = Call("begin_transaction", t, "", TRUE, 0, <<"PREPARED">>)
        /\ tm_active[t] = "PREPARED"
        /\ tm_active[u] # Absent
        /\ transaction_locks[t] # {}

\* C23: begin_transaction(t); commit_transaction(t) applied again right after
\* it was applied leaves the registry and the lock table as the first
\* application left them, and the commit of every application returns True.
C23_BeginCommitRepeats ==
    [][call'.op = "begin;commit" =>
          /\ call'.result
          /\ (call.op = "begin;commit" /\ call.txn = call'.txn)
                => UNCHANGED <<tm_active, locks, transaction_locks>>]_vars

\* C23 witness: the sequence ran again right after it had removed two locks of
\* the transaction; the transaction is not registered, holds nothing, and the
\* other transaction keeps its lock.
C23_Witness ==
    \E t \in LockTxns : \E u \in LockTxns \ {t} :
        /\ call = Call("begin;commit", t, "", TRUE, 0,
                       <<Absent, "ACTIVE", "COMMITTING", "COMMITTED", Absent>>)
        /\ terminal = [txn |-> t, op |-> "commit", held |-> FALSE]
        /\ tm_active[t] = Absent
        /\ transaction_locks[t] = {}
        /\ transaction_locks[u] # {}

\* C24: the server writes no response on a connection whose request it
\* received as a Heartbeat message; handling it only records the heartbeat:
\* the sender's last heartbeat is fresh and its status flag is set, and
\* nothing else of the node changes.
C24_HeartbeatNeverAnswered ==
    [][(rx'.count # rx.count /\ rx'.path = "server" /\ Accepted(rx'.frame)
           /\ rx'.frame.message.body.type = "HEARTBEAT")
       => LET n == rx'.node
              m == rx'.frame.message.body.sender_id
          IN  /\ ~rx'.responded
              /\ stale' = [stale EXCEPT ![n][m] = FALSE]
              /\ node_status' = [node_status EXCEPT ![n][m] = TRUE]
              /\ UNCHANGED <<up, faults, varsElec, varsCo, varsPart, last, delivered,
                             varsLock, varsQuery, varsThreads>>]_vars

\* C24 witness: a node that had marked the coordinator dead received the
\* coordinator's Heartbeat; the peer is alive again, nothing was written back.
C24_Witness ==
    /\ rx.path = "server" /\ rx.outcome = "dispatched"
    /\ rx.frame.message.body.type = "HEARTBEAT"
    /\ ~rx.responded
    /\ faults > 0
    /\ node_status[rx.node][rx.frame.message.body.sender_id]
    /\ ~stale[rx.node][rx.frame.message.body.sender_id]
    /\ rx.frame.message.body.sender_id = initial_coordinator
    /\ hc_coordinator_id[rx.node] = NoNode

\* C27 (as stated): a node never runs two elections at once: under every
\* interleaving of the failure callback and incoming Election messages, at
\* most one execution of start_election is past its in-progress check.
C27_OneElectionAtATime ==
    \A n \in Nodes : Cardinality({th \in Threads : PastCheck(n, th)}) <= 1

\* C28 (as stated): when a higher node answered ELECTION_OK and no
\* announcement arrived before the election timeout ended, the node starts
\* the election again; the call does not end with coordinator_id as it was.
C28_SilentWaitRestartsElection ==
    [][\A n \in Nodes : \A th \in Threads :
          (threads[n][th].pc = "wait" /\ threads'[n][th].pc # "wait"
              /\ ~threads[n][th].announced)
          => /\ threads'[n][th].pc \in {"enter", "checked", "send"}
             /\ threads'[n][th].outcome # "waited"]_vars

\* C29: an execution of start_election makes the node coordinator (its
\* coordinator_id is its own id, every running peer is sent the announcement
\* and the role-change callback has run) exactly when the node has no higher
\* node or no higher node answered ELECTION_OK; when one answered, the
\* execution leaves coordinator, role and announcements as they are.
C29_CoordinatorIffNoHigherAnswer ==
    [][\A n \in Nodes : \A th \in Threads :
          (threads[n][th].pc = "send" /\ threads[n][th].todo = {}
              /\ threads'[n][th] # threads[n][th])
          => IF higher_nodes(n) = {} \/ threads[n][th].responses = {}
             THEN /\ coordinator_id'[n] = n
                  /\ \A m \in Peers(n) : up[m] => <<n, m>> \in ann'
                  /\ is_active'[n] /\ hc_coordinator_id'[n] = n
                  /\ threads'[n][th].outcome = "coordinator"
             ELSE /\ UNCHANGED <<coordinator_id, ann, is_active, hc_coordinator_id>>
                  /\ threads'[n][th].pc = "wait"]_vars

\* C29 witness: with the highest node stopped, node 2 got no answer and is
\* coordinator, while node 1, which node 2 answered, waited and is not.
C29_Witness ==
    /\ ~up[3]
    /\ \E th \in Threads : threads[2][th].outcome = "coordinator"
    /\ coordinator_id[2] = 2 /\ is_active[2]
    /\ \E th \in Threads : threads[1][th].outcome = "waited"
    /\ \A th \in Threads : threads[1][th].outcome # "coordinator"
    /\ ~is_active[1]

\* C30: after handle_coordinator_announcement(from), coordinator_id is from,
\* and the role-change callback ran (is_self false: the health checker
\* records from, the node's coordinator role is inactive) exactly when the
\* coordinator_id before the call was another id.
C30_AnnouncementAdopted ==
    [][\A f \in Nodes : \A t \in Peers(f) :
          (<<f, t>> \in ann /\ <<f, t>> \notin ann')
          => /\ coordinator_id'[t] = f
             /\ IF coordinator_id[t] # f
                THEN hc_coordinator_id'[t] = f /\ ~is_active'[t]
                ELSE /\ hc_coordinator_id'[t] = hc_coordinator_id[t]
                     /\ is_active'[t] = is_active[t]]_vars

\* C30 witness: a node whose health checker had cleared its coordinator got
\* the announcement of the coordinator it already recorded: the callback did
\* not run, the health checker still has none.
C30_Witness ==
    \E t \in Nodes :
        /\ coordinator_id[t] = initial_coordinator
        /\ hc_coordinator_id[t] = NoNode
        /\ \A th \in Threads : threads[t][th].pc = "idle"
        /\ \E th \in Threads : threads[t][th].outcome = "waited"
        /\ \E th \in Threads : threads[initial_coordinator][th].outcome = "coordinator"
        /\ <<initial_coordinator, t>> \notin ann
        /\ \E u \in Nodes \ {t, initial_coordinator} : hc_coordinator_id[u] = initial_coordinator

\* C32: handle_abort(t) for a transaction the participant does not know (not
\* in the prepared map, not in the registry) is a no-op: abort_prepared_query
\* is not invoked, the prepared map, the registry and the lock table are as
\* before, and no reply is produced.
C32_AbortUnknownIsNoOp ==
    [][\A p \in Nodes : \A t \in Txns :
          ( /\ delivered' = delivered + 1
            /\ last'.node = p /\ last'.type = "ABORT" /\ last'.txn = t
            /\ prepared_transactions[p][t] = Absent
            /\ active_transactions[p][t] = Absent )
          => /\ apCount' = apCount /\ cpCount' = cpCount /\ execCount' = execCount
             /\ prepared_transactions' = prepared_transactions
             /\ active_transactions' = active_transactions
             /\ UNCHANGED <<locks, transaction_locks>>
             /\ last'.reply = "NONE"]_vars

\* C32 witness: the first message a node handled is an ABORT; nothing is
\* recorded for its transaction.
C32_Witness ==
    /\ delivered = 1 /\ last.type = "ABORT" /\ last.reply = "NONE"
    /\ prepared_transactions[last.node][last.txn] = Absent
    /\ active_transactions[last.node][last.txn] = Absent
    /\ apCount[last.node][last.txn] = 0

\* C38 (as stated): after handle_abort(t) returns, t is in neither the
\* prepared map nor the registry of the participant, whatever query string was
\* prepared under t (the empty string included); a COMMIT for a transaction
\* the registry does not hold is answered with ERROR and executes nothing.
C38_AbortForgetsTransaction ==
    [][\A p \in Nodes : \A t \in Txns :
          ( /\ delivered' = delivered + 1
            /\ last'.node = p /\ last'.txn = t )
          => /\ last'.type = "ABORT"
                   => /\ prepared_transactions'[p][t] = Absent
                      /\ active_transactions'[p][t] = Absent
             /\ (last'.type = "COMMIT" /\ active_transactions[p][t] = Absent)
                   => /\ last'.reply = "ERROR"
                      /\ execCount' = execCount /\ cpCount' = cpCount]_vars

\* C40: the two tables of the lock manager are consistent in every reachable
\* state: the set of transaction t lists resource r exactly when the lock
\* list of r holds a lock of t, no resource is a key with an empty list, and
\* no transaction is a key with an empty set.
C40_TablesConsistent ==
    /\ \A t \in LockTxns : \A r \in Resources :
          r \in transaction_locks[t]
             <=> \E i \in 1..Len(locks[r]) : locks[r][i].transaction_id = t
    /\ \A r \in Resources : r \in keys.locks <=> locks[r] # <<>>
    /\ \A t \in LockTxns : t \in keys.transaction_locks <=> transaction_locks[t] # {}

\* C40 witness: a thread waits for a resource whose holder has released it
\* since: the resource is no longer a key, its former holder still is, with
\* the lock it kept on the other resource.
C40_Witness ==
    /\ acq.pc = "sleep"
    /\ acq.resource \notin keys.locks
    /\ acq.txn \notin keys.transaction_locks
    /\ \E u \in LockTxns \ {acq.txn} : \E r \in Resources \ {acq.resource} :
          /\ keys = [locks |-> {r}, transaction_locks |-> {u}]
          /\ transaction_locks[u] = {r}
          /\ Len(locks[r]) = 2

\* C31: the checker invokes the failure callback once per alive-to-dead
\* transition of a peer: each invocation goes with a peer that was flagged
\* alive, whose heartbeat the pass found older than the timeout, being marked
\* dead; each such transition makes one invocation; and there is none for a
\* peer while it stays marked dead.
C31_OneCallbackPerTransition ==
    [][\A n \in Nodes : \A m \in Peers(n) :
          /\ checker'[n].calls[m] # checker[n].calls[m]
                => /\ checker'[n].calls[m] = checker[n].calls[m] + 1
                   /\ node_status[n][m] /\ ~node_status'[n][m]
                   /\ checker[n].timed_out[m]
          /\ (node_status[n][m] /\ ~node_status'[n][m])
                => checker'[n].calls[m] = checker[n].calls[m] + 1
          /\ ~node_status[n][m] => checker'[n].calls[m] = checker[n].calls[m]]_vars

\* C31 witness: a peer was marked dead, came back with a heartbeat and was
\* marked dead again; the callback ran twice, and the pass that is under way
\* has looked at the dead peer without another call.
C31_Witness ==
    \E n \in Nodes : \E m \in Peers(n) :
        /\ checker[n].calls[m] = 2
        /\ ~node_status[n][m] /\ stale[n][m]
        /\ checker[n].pc = "pass" /\ m \notin checker[n].todo
        /\ faults = 2

\* C36 (as stated): when the checker marks a peer dead and invokes the
\* failure callback, the peer's recorded last heartbeat is older than the
\* timeout, also when a worker thread records a heartbeat during the pass.
C36_MarkedDeadOnlyWhenStale ==
    [][\A n \in Nodes : \A m \in Peers(n) :
          (node_status[n][m] /\ ~node_status'[n][m]) => stale[n][m]]_vars

\* C35 (as stated): two running nodes have each marked the other dead; once
\* every heartbeat that is sent arrives again (no loss is left to happen),
\* each of them eventually marks the other alive.
C35_MutualDeadHeals ==
    \A n \in Nodes : \A m \in Peers(n) :
        (faults = MaxFaults /\ up[n] /\ up[m] /\ ~node_status[n][m] /\ ~node_status[m][n])
            ~> (node_status[n][m] /\ node_status[m][n])

\* C39 (as stated): no public LoadBalancer operation blocks on the lock it
\* already holds, so each one can return and leave the lock free:
\* get_cluster_load included, for every non-empty list of nodes.
C39_NeverWaitsForOwnLock ==
    \A th \in Callers :
        balancer.callers[th].pc \in {"with", "inner"} => balancer.lock # th

\* C33 (as stated): every message sent is delivered and handled; once a 2PC
\* round has run to completion and none of its messages is left to handle, no
\* participant of the round still has the transaction in its prepared map
\* (the COMMIT or the ABORT removed it), in whatever order the worker threads
\* handled PREPARE and ABORT.
C33_PreparedIsRemoved ==
    \A t \in Txns :
        (RoundDone(t) /\ LateFor(t) = {})
            => \A p \in Others(t) : prepared_transactions[p][t] = Absent

\* C37 (as stated): no orphan locks.  Whenever no acquire_lock call is under
\* way, every lock in the lock table is held by a transaction that is still
\* in the registry, also when the transaction was committed or aborted by
\* another thread while its acquire_lock was polling.
C37_NoOrphanLocks ==
    acq.pc = "idle"
        => \A r \in Resources : \A i \in 1..Len(locks[r]) :
               tm_active[locks[r][i].transaction_id] # Absent

\* C34 (as stated): in every quiescent state (no election under way, no
\* announcement left to handle) the coordinator role of a running node is
\* active exactly when its election's coordinator_id is its own id, however
\* becoming coordinator in its own election interleaved with the handling of
\* a Coordinator_Announcement.
C34_ActiveIffOwnId ==
    Quiescent
        => \A n \in Nodes : up[n] => (is_active[n] <=> coordinator_id[n] = n)

====
